---- MODULE Spec2Model ----
(***************************************************************************)
(* devman: the generation-plan / conflict-detection mechanism.             *)
(*                                                                         *)
(* A template render is materialised in a sandbox directory, re-read into  *)
(* an in-memory snapshot, and compared with the destination directory.     *)
(* Two code paths do this: copier_engine.py (snapshot_render_to_memory,    *)
(* plan_against_destination) and models.py (TemplateEngine.create_plan,    *)
(* GenerationPlan.analyze_conflicts).                                      *)
(*                                                                         *)
(* Files are byte sequences; text is a sequence of code points; a path is  *)
(* a string whose code points decide its place in a sorted plan.           *)
(***************************************************************************)
EXTENDS Integers, Sequences, FiniteSets, TLC

VARIABLES
    rendered,   \* what the renderer (copier run_copy) produces for the template
    fs,         \* the file system: the destination root and the sandbox root
    snapshot,   \* the dict last returned by snapshot_render_to_memory
    ret,        \* outcome of the last plan_against_destination / snapshot call
    gplan,      \* the GenerationPlan object last returned by create_plan
    eret,       \* outcome of the last create_plan / analyze_conflicts call
    api,        \* which of the coexisting entry points the caller uses
    cli,        \* outcome of the last `generate` command / generate_project call
    cfg,        \* the configuration files and the outcome of the last config call
    reg,        \* the template registry, its cache and the outcome of the last call
    val,        \* a destination's parent directory and the last validation of it
    pc          \* the arguments and the outcome of a ProjectConfig construction

vars == <<rendered, fs, snapshot, ret, gplan, eret, api, cli, cfg, reg, val, pc>>

----------------------------------------------------------------------------
(* Bounds and input sets *)

\* longest file content, in bytes
MaxLen == 2

\* relative POSIX paths a template may render: a dotfile and a nested file
Paths == {".e", "d/f"}

\* code points of each path (Python compares str by code point)
PathChars(p) ==
    CASE p = ".e"  -> <<46, 101>>
      [] p = "d/f" -> <<100, 47, 102>>

\* file contents: empty, "A", LF, two undecodable bytes, e-acute, CR LF,
\* an undecodable pair, the euro sign, "A" CR LF
ContentPool ==
    { <<>>, <<65>>, <<10>>, <<255>>, <<254>>,
      <<195, 169>>, <<13, 10>>, <<255, 254>>,
      <<226, 130, 172>>, <<65, 13, 10>> }

Contents == { c \in ContentPool : Len(c) <= MaxLen }

----------------------------------------------------------------------------
(* Bytes and text *)

IsCont(c) == c >= 128 /\ c <= 191

RECURSIVE Utf8From(_, _)
\* bytes.decode("utf-8") from index i: [ok, text]; ok = FALSE is UnicodeDecodeError
Utf8From(b, i) ==
    IF i > Len(b) THEN [ok |-> TRUE, text |-> <<>>]
    ELSE
      LET c == b[i]
          n == Len(b)
          Then(cp, j) ==
              LET r == Utf8From(b, j)
              IN  IF r.ok THEN [ok |-> TRUE, text |-> <<cp>> \o r.text]
                  ELSE [ok |-> FALSE, text |-> <<>>]
      IN  IF c < 128 THEN Then(c, i + 1)
          ELSE IF c >= 194 /\ c <= 223 /\ i + 1 <= n /\ IsCont(b[i + 1])
            THEN Then((c - 192) * 64 + (b[i + 1] - 128), i + 2)
          ELSE IF /\ c >= 224 /\ c <= 239 /\ i + 2 <= n
                  /\ IsCont(b[i + 1]) /\ IsCont(b[i + 2])
                  /\ (c = 224 => b[i + 1] >= 160)
                  /\ (c = 237 => b[i + 1] <= 159)
            THEN Then((c - 224) * 4096 + (b[i + 1] - 128) * 64 + (b[i + 2] - 128),
                      i + 3)
          ELSE IF /\ c >= 240 /\ c <= 244 /\ i + 3 <= n
                  /\ IsCont(b[i + 1]) /\ IsCont(b[i + 2]) /\ IsCont(b[i + 3])
                  /\ (c = 240 => b[i + 1] >= 144)
                  /\ (c = 244 => b[i + 1] <= 143)
            THEN Then((c - 240) * 262144 + (b[i + 1] - 128) * 4096
                        + (b[i + 2] - 128) * 64 + (b[i + 3] - 128), i + 4)
          ELSE [ok |-> FALSE, text |-> <<>>]

Utf8Decode(b) == Utf8From(b, 1)

RECURSIVE UniversalNewlines(_)
\* text-mode read with newline=None: CR LF and a lone CR both become LF
UniversalNewlines(t) ==
    IF t = <<>> THEN <<>>
    ELSE IF Head(t) = 13
      THEN IF Len(t) >= 2 /\ t[2] = 10
             THEN <<10>> \o UniversalNewlines(Tail(Tail(t)))
             ELSE <<10>> \o UniversalNewlines(Tail(t))
      ELSE <<Head(t)>> \o UniversalNewlines(Tail(t))

\* Path.read_text(encoding="utf-8") of a regular file holding bytes b
ReadText(b) ==
    LET d == Utf8Decode(b)
    IN  IF d.ok THEN [ok |-> TRUE, text |-> UniversalNewlines(d.text)]
        ELSE [ok |-> FALSE, text |-> <<>>]

\* base64 alphabet positions of the encoded payload; 64 stands for "="
RECURSIVE B64Encode(_)
B64Encode(b) ==
    IF b = <<>> THEN <<>>
    ELSE IF Len(b) = 1
      THEN << b[1] \div 4, (b[1] % 4) * 16, 64, 64 >>
    ELSE IF Len(b) = 2
      THEN << b[1] \div 4, ((b[1] % 4) * 16) + (b[2] \div 16), (b[2] % 16) * 4, 64 >>
    ELSE << b[1] \div 4, ((b[1] % 4) * 16) + (b[2] \div 16),
            ((b[2] % 16) * 4) + (b[3] \div 64), b[3] % 64 >>
         \o B64Encode(SubSeq(b, 4, Len(b)))

RECURSIVE SeqLT(_, _)
\* lexicographic order of two code point sequences
SeqLT(s, t) ==
    IF t = <<>> THEN FALSE
    ELSE IF s = <<>> THEN TRUE
    ELSE IF Head(s) # Head(t) THEN Head(s) < Head(t)
    ELSE SeqLT(Tail(s), Tail(t))

\* Python's str "<" on two paths
PathLT(p, q) == SeqLT(PathChars(p), PathChars(q))

----------------------------------------------------------------------------
(* The file system *)

NoObj == [k |-> "none", bytes |-> <<>>]
DirObj == [k |-> "dir", bytes |-> <<>>]
FileObj(b) == [k |-> "file", bytes |-> b]

\* a root that does not exist, and a root that is an empty directory
AbsentTree == [kind |-> "absent", files |-> [p \in Paths |-> NoObj]]
EmptyDir == [kind |-> "dir", files |-> [p \in Paths |-> NoObj]]
\* a root occupied by a plain file
PlainFile == [kind |-> "file", files |-> [p \in Paths |-> NoObj]]

\* faulty variant: a target counts as existing when nothing is there
ExistsInverted(tree, p) == ~(tree.kind = "dir" /\ tree.files[p].k # "none")

\* Path.exists() of root/p: a stat failing with ENOENT or ENOTDIR (the root is
\* missing or is a plain file) is reported as "does not exist"
Exists(tree, p) == tree.kind = "dir" /\ tree.files[p].k # "none"

\* Path.is_file() of root/p
IsFile(tree, p) == tree.kind = "dir" /\ tree.files[p].k = "file"

\* the sequences that list every element of S once: the orders in which a
\* directory walk may yield its entries
Perms(S) ==
    { s \in [1..Cardinality(S) -> S] : \A i, j \in 1..Cardinality(S) : s[i] = s[j] => i = j }

\* the regular files under a root
FilesOf(tree) == { p \in Paths : IsFile(tree, p) }

\* run_copy(dst_path=root, overwrite=True): the files of `written` are
\* materialised under the root (all rendered files unless the render raised)
RunCopy(tree, written) ==
    [kind |-> "dir",
     files |-> [p \in Paths |->
                  IF p \in written /\ rendered[p].k = "file" THEN rendered[p]
                  ELSE IF tree.kind = "dir" THEN tree.files[p] ELSE NoObj]]

----------------------------------------------------------------------------
(* Python dict as an association list in insertion order *)

Keys(d) == { d[i][1] : i \in 1..Len(d) }

\* d[k] = v: an existing key keeps its place, a new key goes last
DictSet(d, k, v) ==
    IF k \in Keys(d)
      THEN [i \in 1..Len(d) |-> IF d[i][1] = k THEN <<k, v>> ELSE d[i]]
      ELSE Append(d, <<k, v>>)

----------------------------------------------------------------------------
(* copier_engine.py *)

\* _read_file_safe(p) of a regular file holding bytes b
ReadFileSafe(b) ==
    LET t == ReadText(b)
    IN  IF t.ok
          THEN [type |-> "text", text |-> t.text, b64 |-> <<>>, size |-> Len(b)]
          ELSE [type |-> "binary", text |-> <<>>, b64 |-> B64Encode(b), size |-> Len(b)]

RECURSIVE CollectFilesSkippingDotfiles(_, _, _)
\* faulty variant: the loops pass over the files whose name starts with "."
CollectFilesSkippingDotfiles(tree, listing, snap) ==
    IF listing = <<>> THEN snap
    ELSE CollectFilesSkippingDotfiles(tree, Tail(listing),
            IF Head(PathChars(Head(listing))) = 46 THEN snap
            ELSE DictSet(snap, Head(listing),
                         ReadFileSafe(tree.files[Head(listing)].bytes)))

RECURSIVE CollectFiles(_, _, _)
\* one loop over a directory listing: snapshot[rel] = _read_file_safe(p)
CollectFiles(tree, listing, snap) ==
    IF listing = <<>> THEN snap
    ELSE CollectFiles(tree, Tail(listing),
                      DictSet(snap, Head(listing),
                              ReadFileSafe(tree.files[Head(listing)].bytes)))

\* faulty variant: the render goes to the destination
SandboxIsDestination == "dest"

\* the root the snapshot is rendered into: tmp_path
SandboxRoot == "tmp"

\* faulty variant: the directory is removed by a statement at the end of the
\* block, which an exception skips
WithExitOnReturnOnly(fsys, exc) ==
    IF exc = "none" THEN [fsys EXCEPT !["tmp"] = AbsentTree] ELSE fsys

\* leaving the block of `with tempfile.TemporaryDirectory(...) as tmp`, by
\* return or by the exception exc: the directory and all under it is removed
WithExit(fsys, exc) == [fsys EXCEPT !["tmp"] = AbsentTree]

\* the exception the body of the with block ends in: run_copy raises (fail),
\* or the read of a rendered file raises OSError (unreadable, and there is a
\* file to read)
BodyExc(fail, unreadable, listing) ==
    IF fail THEN "RenderError"
    ELSE IF unreadable /\ listing # <<>> THEN "OSError"
    ELSE "none"

\* snapshot_render_to_memory: render into a fresh temporary directory, read
\* every file back (the rglob loop, then the os.walk loop), remove the
\* directory. fail: run_copy raises after materialising `written`.
\* unreadable: reading a rendered file raises.
\* Returns the file system afterwards, the exception and the snapshot.
SnapshotRenderToMemory(fsys, fail, written, rglob, walk, unreadable) ==
    LET made == [fsys EXCEPT !["tmp"] = EmptyDir]
        root == SandboxRoot
        ran  == [made EXCEPT ![root] =
                    RunCopy(made[root], IF fail THEN written ELSE Paths)]
        snap == CollectFiles(ran["tmp"], walk, CollectFiles(ran["tmp"], rglob, <<>>))
        exc  == BodyExc(fail, unreadable, rglob \o walk)
    IN  [fs |-> WithExit(ran, exc), exc |-> exc,
         value |-> IF exc = "none" THEN snap ELSE <<>>]

Entry(rel, status, size, note) ==
    [path |-> rel, status |-> status, size |-> size, note |-> note]

\* faulty variant: the comparison only looks at the byte length
SameContentBySize(meta, b) == Len(b) = meta.size

\* faulty variant: a destination file that does not decode is never the same
SameContentTextOnly(meta, b) ==
    LET existing == ReadText(b)
    IN  existing.ok /\ meta.type = "text" /\ existing.text = meta.text

\* the comparison of lines 130-134: decoded text against the record's text, or,
\* when the existing file does not decode, its byte length against the size
SameContent(meta, b) ==
    LET existing == ReadText(b)
    IN  IF existing.ok
          THEN meta.type = "text" /\ existing.text = meta.text
          ELSE Len(b) = meta.size

\* faulty variant: force does not turn a skip into an overwrite
ClassifyIgnoringForce(rel, meta, b, force) ==
    IF SameContent(meta, b)
      THEN Entry(rel, "skip-identical", meta.size, "")
      ELSE Entry(rel, "skip-exists", meta.size, "use --force to overwrite")

\* one iteration of the loop of plan_against_destination, the target existing
\* as a regular file
Classify(rel, meta, b, force) ==
    IF SameContent(meta, b)
      THEN IF force THEN Entry(rel, "overwrite", meta.size, "identical content")
           ELSE Entry(rel, "skip-identical", meta.size, "")
      ELSE IF force THEN Entry(rel, "overwrite", meta.size, "")
           ELSE Entry(rel, "skip-exists", meta.size, "use --force to overwrite")

RECURSIVE Insert(_, _)
\* e placed in the sorted list l behind every entry whose path is not greater
Insert(l, e) ==
    IF l = <<>> THEN <<e>>
    ELSE IF PathLT(e.path, Head(l).path) THEN <<e>> \o l
    ELSE <<Head(l)>> \o Insert(Tail(l), e)

\* faulty variant: the plan is returned in the order of the loop
Unsorted(l) == l

RECURSIVE SortedByPath(_)
\* sorted(plan, key=lambda x: x["path"]): stable, ascending
SortedByPath(l) ==
    IF l = <<>> THEN <<>>
    ELSE Insert(SortedByPath(SubSeq(l, 1, Len(l) - 1)), l[Len(l)])

RECURSIVE PlanLoop(_, _, _, _)
\* the for loop over snapshot.items(); reading a target that is a directory
\* raises IsADirectoryError, which nothing catches
PlanLoop(items, dest, force, plan) ==
    IF items = <<>> THEN [exc |-> "none", value |-> plan]
    ELSE
      LET rel == Head(items)[1]
          meta == Head(items)[2]
      IN  IF ~Exists(dest, rel)
            THEN PlanLoop(Tail(items), dest, force,
                          Append(plan, Entry(rel, "create", meta.size, "")))
          ELSE IF dest.files[rel].k = "dir"
            THEN [exc |-> "IsADirectoryError", value |-> <<>>]
          ELSE PlanLoop(Tail(items), dest, force,
                        Append(plan, Classify(rel, meta, dest.files[rel].bytes, force)))

\* faulty variant: the list survives from the call before
LeftoverPlan == ret.plan

\* the start of the list the loop appends to: plan = []
EmptyPlan == <<>>

\* plan_against_destination(snapshot, dest, force=force)
PlanAgainstDestination(snap, dest, force) ==
    LET r == PlanLoop(snap, dest, force, EmptyPlan)
    IN  IF r.exc # "none" THEN r
        ELSE [exc |-> "none", value |-> SortedByPath(r.value)]

\* the conflicts of a Plan: the paths with status skip-exists
Conflicts(plan) == { plan[i].path : i \in { j \in 1..Len(plan) : plan[j].status = "skip-exists" } }

----------------------------------------------------------------------------
(* models.py *)

RECURSIVE Decimal(_)
\* str(n) as code points
Decimal(n) == IF n < 10 THEN <<48 + n>> ELSE Decimal(n \div 10) \o <<48 + (n % 10)>>

\* f"<binary file: {size} bytes>"
BinaryPlaceholder(size) ==
    <<60, 98, 105, 110, 97, 114, 121, 32, 102, 105, 108, 101, 58, 32>>
      \o Decimal(size) \o <<32, 98, 121, 116, 101, 115, 62>>

\* TemplateEngine._create_file_snapshot of a regular file holding bytes b
CreateFileSnapshot(b) ==
    LET t == ReadText(b)
    IN  IF t.ok
          THEN [content |-> t.text, size |-> Len(t.text), is_binary |-> FALSE]
          ELSE [content |-> BinaryPlaceholder(Len(b)), size |-> Len(b),
                is_binary |-> TRUE]

RECURSIVE CollectSnapshots(_, _, _)
\* the rglob loop of _render_to_memory: files[rel_path] = _create_file_snapshot(p)
CollectSnapshots(tree, listing, files) ==
    IF listing = <<>> THEN files
    ELSE CollectSnapshots(tree, Tail(listing),
                          DictSet(files, Head(listing),
                                  CreateFileSnapshot(tree.files[Head(listing)].bytes)))

\* the root _render_to_memory renders into
RenderRoot == "tmp"

\* TemplateEngine._render_to_memory
RenderToMemory(fsys, fail, written, rglob, unreadable) ==
    LET made == [fsys EXCEPT !["tmp"] = EmptyDir]
        root == RenderRoot
        ran  == [made EXCEPT ![root] =
                    RunCopy(made[root], IF fail THEN written ELSE Paths)]
        exc  == BodyExc(fail, unreadable, rglob)
    IN  [fs |-> WithExit(ran, exc), exc |-> exc,
         value |-> IF exc = "none" THEN CollectSnapshots(ran["tmp"], rglob, <<>>)
                   ELSE <<>>]

\* faulty variant: only regular files count as existing targets
ExistingFileTargets(files, dest) ==
    SelectSeq([i \in 1..Len(files) |-> files[i][1]], LAMBDA rel : IsFile(dest, rel))

\* the body of GenerationPlan.analyze_conflicts behind the force test: the
\* paths of plan.files, in their order, whose target exists
ExistingTargets(files, dest) ==
    SelectSeq([i \in 1..Len(files) |-> files[i][1]], LAMBDA rel : Exists(dest, rel))

\* GenerationPlan.analyze_conflicts(force): the plan afterwards and the list
\* returned; with force the stored conflicts are left as they were
AnalyzeConflicts(plan, dest, force) ==
    IF force THEN [plan |-> plan, value |-> <<>>]
    ELSE LET conflicts == ExistingTargets(plan.files, dest)
         IN  [plan |-> [plan EXCEPT !.conflicts = conflicts], value |-> conflicts]

\* GenerationPlan(destination=..., template_path=..., files=files)
NewGenerationPlan(files) ==
    [made |-> TRUE, destination |-> "dest", files |-> files, conflicts |-> <<>>]

\* no GenerationPlan has been returned yet
NoPlan == [made |-> FALSE, destination |-> "dest", files |-> <<>>, conflicts |-> <<>>]

\* faulty variant: the wrapping exception does not carry the original
ReRaiseWithoutOriginal(e) == [exc |-> "CopierExecutionError", cause |-> "none"]

\* except Exception as e: raise CopierExecutionError(..., original_error=e) from e
ReRaise(e) == [exc |-> "CopierExecutionError", cause |-> e]

\* TemplateEngine.create_plan: resolve the template (found: the template
\* resolves to a valid template directory), render to memory, build the plan,
\* analyse conflicts. Any exception of the try block is re-raised as
\* CopierExecutionError. cause: the original_error of the exception raised.
CreatePlan(fsys, found, fail, written, rglob, unreadable) ==
    IF ~found THEN [fs |-> fsys, exc |-> "TemplateNotFoundError", cause |-> "none",
                    plan |-> NoPlan]
    ELSE
      LET r == RenderToMemory(fsys, fail, written, rglob, unreadable)
      IN  IF r.exc # "none"
            THEN [fs |-> r.fs, exc |-> ReRaise(r.exc).exc,
                  cause |-> ReRaise(r.exc).cause, plan |-> NoPlan]
            ELSE [fs |-> r.fs, exc |-> "none", cause |-> "none",
                  plan |-> AnalyzeConflicts(NewGenerationPlan(r.value),
                                            r.fs["dest"], FALSE).plan]

\* GenerationPlan.get_summary()["conflicts"]
SummaryConflicts(plan) == Len(plan.conflicts)

----------------------------------------------------------------------------
(* validation.py *)

\* any(destination.iterdir()) of a destination directory
NonEmpty(tree) == \E p \in Paths : tree.files[p].k # "none"

\* the states of destination.parent the checks tell apart: a directory the
\* user may write to (or a missing one that mkdir can create), and one where
\* mkdir or touch raises PermissionError
Parents == {"writable", "readonly"}

\* faulty variant: force switches the whole validation off
ValidateDestinationUnlessForce(tree, force, parent) ==
    IF force THEN "none"
    ELSE IF tree.kind = "file" THEN "InvalidProjectNameError"
    ELSE IF tree.kind = "dir" /\ NonEmpty(tree) THEN "ProjectExistsError"
    ELSE IF parent = "readonly" THEN "InvalidProjectNameError"
    ELSE "none"

\* ProjectValidator.validate_destination(destination, force): the exception
\* raised, "none" when the destination passes
ValidateDestination(tree, force, parent) ==
    IF tree.kind = "file" THEN "InvalidProjectNameError"
    ELSE IF tree.kind = "dir" /\ ~force /\ NonEmpty(tree) THEN "ProjectExistsError"
    ELSE IF parent = "readonly" THEN "InvalidProjectNameError"
    ELSE "none"

----------------------------------------------------------------------------
(* models.py: TemplateEngine.generate_project *)

\* the rendered files run_copy cannot write: a directory occupies their place
Blocked(tree) == { p \in Paths : rendered[p].k = "file" /\ Exists(tree, p)
                                   /\ tree.files[p].k = "dir" }

\* how run_copy into the destination may end: every rendered file written, or
\* raising with some of them written (it must raise when a file is blocked)
GenInputs(tree) ==
    (IF Blocked(tree) = {} THEN {[fail |-> FALSE, written |-> Paths]} ELSE {})
      \cup {[fail |-> TRUE, written |-> w] :
                w \in SUBSET ({ p \in Paths : rendered[p].k = "file" } \ Blocked(tree))}

\* faulty variant: a file that exists is kept as it is
RunCopyIntoKeepingExisting(tree, fail, written) ==
    [kind |-> "dir",
     files |-> [p \in Paths |->
                  IF tree.kind = "dir" /\ tree.files[p].k # "none" THEN tree.files[p]
                  ELSE IF p \in written /\ rendered[p].k = "file" THEN rendered[p]
                  ELSE NoObj]]

\* run_copy(dst_path=destination, overwrite=force) on a validated destination:
\* the rendered files replace what is there; when it raises, a destination
\* that did not exist before is removed again (copier's cleanup_on_error)
RunCopyInto(tree, fail, written) ==
    IF fail /\ tree.kind = "absent" THEN tree
    ELSE RunCopy(tree, IF fail THEN written ELSE Paths)

\* _apply_security_configs: the files it writes (.pre-commit-config.yaml,
\* .bandit, .safety-policy.yml, .secrets.baseline) and edits (pyproject.toml,
\* justfile) are none of Paths
ApplySecurityConfigs(tree) == tree

\* faulty variant: the destination is not validated before run_copy
GenerateProjectUnvalidated(fsys, found, force, parent, fail, written) ==
    IF ~found THEN [fs |-> fsys, exc |-> "TemplateNotFoundError", wrote |-> FALSE]
    ELSE IF fail
      THEN [fs |-> [fsys EXCEPT !["dest"] = RunCopyInto(fsys["dest"], TRUE, written)],
            exc |-> "CopierExecutionError", wrote |-> TRUE]
    ELSE [fs |-> [fsys EXCEPT !["dest"] =
                    ApplySecurityConfigs(RunCopyInto(fsys["dest"], FALSE, written))],
          exc |-> "none", wrote |-> TRUE]

\* TemplateEngine.generate_project(template, destination, config, force=force):
\* resolve, validate the destination, run_copy, apply the security
\* configuration; an exception of the try block becomes CopierExecutionError.
\* wrote: run_copy was invoked
GenerateProject(fsys, found, force, parent, fail, written) ==
    IF ~found THEN [fs |-> fsys, exc |-> "TemplateNotFoundError", wrote |-> FALSE]
    ELSE
      LET v == ValidateDestination(fsys["dest"], force, parent)
      IN  IF v # "none" THEN [fs |-> fsys, exc |-> v, wrote |-> FALSE]
          ELSE IF fail
            THEN [fs |-> [fsys EXCEPT !["dest"] = RunCopyInto(fsys["dest"], TRUE, written)],
                  exc |-> "CopierExecutionError", wrote |-> TRUE]
          ELSE [fs |-> [fsys EXCEPT !["dest"] =
                          ApplySecurityConfigs(RunCopyInto(fsys["dest"], FALSE, written))],
                exc |-> "none", wrote |-> TRUE]

----------------------------------------------------------------------------
(* cli.py: the generate command *)

\* str(resolved_template_path)
TemplatePath == "template"

\* GenerationPlan.get_summary()
GetSummary(plan) ==
    [total_files |-> Len(plan.files), conflicts |-> SummaryConflicts(plan),
     destination |-> plan.destination, template |-> TemplatePath]

\* faulty variant: the export leaves the conflicts out
PlanDataWithoutConflicts(plan) ==
    [summary |-> GetSummary(plan), files |-> plan.files]

\* plan_data of lines 183-187: the object json.dumps serialises; the value of
\* "files" maps each path to the model_dump() of its FileSnapshot
PlanData(plan) ==
    [summary |-> GetSummary(plan), files |-> plan.files, conflicts |-> plan.conflicts]

\* where --plan-json points: not given, a file in a directory outside the
\* destination, ExportPath under the destination
ExportTargets == {"none", "outside", "inside"}
ExportPath == ".e"

\* the exported document as a file: the model keeps its opening brace only
ExportFile == FileObj(<<123>>)

\* plan_json.write_text(json.dumps(plan_data, indent=2), encoding="utf-8")
WriteExport(fsys, target) ==
    CASE target = "outside" -> [fs |-> fsys, exc |-> "none"]
      [] target = "inside" ->
           IF fsys["dest"].kind = "absent" THEN [fs |-> fsys, exc |-> "FileNotFoundError"]
           ELSE IF fsys["dest"].kind = "file"
             THEN [fs |-> fsys, exc |-> "NotADirectoryError"]
           ELSE IF fsys["dest"].files[ExportPath].k = "dir"
             THEN [fs |-> fsys, exc |-> "IsADirectoryError"]
           ELSE [fs |-> [fsys EXCEPT !["dest"].files[ExportPath] = ExportFile],
                 exc |-> "none"]

\* faulty variant: the demo branch runs on into the generation
DemoFallsThrough(demo) == FALSE

\* the `return` that ends the demo branch (line 192)
DemoReturns(demo) == demo

\* faulty variant: the handler of the conflict check catches the exit as well
CaughtExitToo(how) == how \in {"exception", "exit"}

\* what `except Exception: pass` (lines 206-208) catches of the ways the try
\* block ends: an exception, but not the SystemExit of sys.exit(1)
Caught(how) == how = "exception"

\* no command has run since the destination last changed
NoCli ==
    [op |-> "none", early |-> "ok", demo |-> FALSE, force |-> FALSE, found |-> TRUE,
     parent |-> "writable", export |-> "none",
     exit |-> 0, exc |-> "none", called |-> FALSE, wrote |-> FALSE,
     planMade |-> FALSE, files |-> <<>>, conflicts |-> <<>>, exported |-> <<>>,
     before |-> AbsentTree]

\* the generate command from its first use of the engine on (lines 142-222);
\* planned: what engine.create_plan(template, destination, config) does when
\* the command calls it
GenerateWithPlan(fsys, i, planned) ==
    LET base == [fs |-> fsys, exit |-> 0, exc |-> "none", called |-> FALSE,
                 wrote |-> FALSE, planMade |-> FALSE, files |-> <<>>,
                 conflicts |-> <<>>, exported |-> <<>>]
        shown == [base EXCEPT !.fs = planned.fs, !.planMade = TRUE,
                              !.files = planned.plan.files,
                              !.conflicts = planned.plan.conflicts]
        generate(from) ==
            LET g == GenerateProject(from.fs, i.found, i.force, i.parent,
                                     i.gen.fail, i.gen.written)
            IN  [from EXCEPT !.fs = g.fs, !.called = TRUE, !.wrote = g.wrote,
                             !.exc = g.exc,
                             !.exit = IF g.exc = "none" THEN 0 ELSE 1]
        normal ==
            IF i.force THEN generate(base)
            ELSE IF planned.exc # "none"
              THEN IF Caught("exception")
                     THEN generate([base EXCEPT !.fs = planned.fs])
                     ELSE [base EXCEPT !.fs = planned.fs, !.exc = planned.exc, !.exit = 1]
            ELSE IF planned.plan.conflicts # <<>> /\ ~Caught("exit")
              THEN [shown EXCEPT !.exit = 1]
            ELSE generate(shown)
    IN  IF i.demo
          THEN IF planned.exc # "none"
                 THEN [base EXCEPT !.fs = planned.fs, !.exc = planned.exc, !.exit = 1]
               ELSE IF i.export = "none"
                 THEN IF DemoReturns(i.demo) THEN shown ELSE generate(shown)
               ELSE
                 LET w == WriteExport(planned.fs, i.export)
                     out == [shown EXCEPT !.fs = w.fs,
                                          !.exported = <<PlanData(planned.plan)>>]
                 IN  IF w.exc # "none"
                       THEN [shown EXCEPT !.exc = w.exc, !.exit = 1]
                     ELSE IF DemoReturns(i.demo) THEN out ELSE generate(out)
          ELSE normal

\* the generate command from TemplateEngine() on (lines 140-222), the
\* configuration loaded and the project configuration valid.
\* i: the arguments and what the environment does: demo, force, export,
\* found, plan (how the render of create_plan ends), parent, gen (how
\* run_copy into the destination ends).
\* Returns the file system, the exit code, the exception that ended the
\* command, whether generate_project was called and whether run_copy was, the
\* plan printed and the document exported.
GenerateFromEngine(fsys, i) ==
    GenerateWithPlan(fsys, i,
                     CreatePlan(fsys, i.found, i.plan.fail, i.plan.written,
                                i.plan.rglob, i.plan.unreadable))

\* the generate command (lines 96-222). early: UserConfig.load() raises
\* ConfigurationError (sys.exit(1)), or ProjectConfig rejects the name
\* (InvalidProjectNameError, which nothing catches)
Generate(fsys, i) ==
    LET base == [fs |-> fsys, exit |-> 1, exc |-> "none", called |-> FALSE,
                 wrote |-> FALSE, planMade |-> FALSE, files |-> <<>>,
                 conflicts |-> <<>>, exported |-> <<>>]
    IN  IF i.early = "config_error" THEN base
        ELSE IF i.early = "invalid_name"
          THEN [base EXCEPT !.exc = "InvalidProjectNameError"]
        ELSE GenerateFromEngine(fsys, i)

----------------------------------------------------------------------------
(* config.py: the user configuration, its YAML files and its search order *)

\* the locations UserConfig searches: the file named by DEVMAN_CONFIG,
\* ./.devman.yml, ($XDG_CONFIG_HOME or ~/.config)/devman/config.yml and
\* ~/.devman.yml
Slots == {"env", "cwd", "xdg", "home"}

\* faulty variant: the current directory is searched before DEVMAN_CONFIG
GetConfigPathsCwdFirst(envSet) ==
    IF envSet THEN <<"cwd", "env", "xdg", "home">> ELSE <<"cwd", "xdg", "home">>

\* UserConfig.get_config_paths(): the DEVMAN_CONFIG entry is there only when
\* the variable is set
GetConfigPaths(envSet) ==
    IF envSet THEN <<"env", "cwd", "xdg", "home">> ELSE <<"cwd", "xdg", "home">>

\* a Python value: its type and its spelling
Py(t, s) == [t |-> t, s |-> s]

\* the fields of UserConfig kept by the model, with their annotations
Fields == {"author_name", "template_sources", "use_nix"}
FieldType(k) ==
    CASE k = "use_nix" -> "bool"
      [] k = "author_name" -> "str"
      [] k = "template_sources" -> "dict"

\* UserConfig(): the defaults
DefaultConfig ==
    [k \in Fields |->
        CASE k = "use_nix" -> Py("bool", "true")
          [] k = "author_name" -> Py("str", "Your Name")
          [] k = "template_sources" -> Py("dict", "{}")]

\* a YAML document is a sequence of lines `key: scalar`, the scalar plain or
\* quoted; a line without a key is a bare scalar
YamlLine(k, q, s) == [key |-> k, quoted |-> q, s |-> s]

\* the implicit resolver of yaml.safe_load on a plain scalar (YAML 1.1)
Resolve(s) ==
    CASE s \in {"true", "True", "TRUE", "yes", "Yes", "YES", "on", "On", "ON"} ->
            Py("bool", "true")
      [] s \in {"false", "False", "FALSE", "no", "No", "NO", "off", "Off", "OFF"} ->
            Py("bool", "false")
      [] s \in {"", "~", "null"} -> Py("none", "")
      [] s \in {"0", "1"} -> Py("int", s)
      [] s \in {"3.11", "3.12"} -> Py("float", s)
      [] s = "{}" -> Py("dict", "{}")
      [] OTHER -> Py("str", s)

\* yaml.safe_load(text): YAMLError for a flow sequence that is never closed,
\* or None for a document without nodes, or a scalar, or a mapping in which
\* the last of equal keys wins and a quoted scalar is a string
SafeLoad(text) ==
    IF \E i \in 1..Len(text) : text[i].s = "yaml: content: ["
      THEN [exc |-> "YAMLError", t |-> "none", m |-> <<>>]
    ELSE IF text = <<>> THEN [exc |-> "none", t |-> "none", m |-> <<>>]
    ELSE IF \E i \in 1..Len(text) : text[i].key = ""
      THEN [exc |-> "none", t |-> "scalar", m |-> <<>>]
    ELSE LET keys == {text[i].key : i \in 1..Len(text)}
             last(k) == CHOOSE i \in 1..Len(text) :
                            /\ text[i].key = k
                            /\ \A j \in 1..Len(text) : text[j].key = k => j <= i
         IN  [exc |-> "none", t |-> "map",
              m |-> [k \in keys |->
                       IF text[last(k)].quoted THEN Py("str", text[last(k)].s)
                       ELSE Resolve(text[last(k)].s)]]

\* yaml.dump of one entry: a string that a plain scalar would not resolve to
\* is written quoted
DumpLine(k, v) == YamlLine(k, v.t = "str" /\ Resolve(v.s).t # "str", v.s)

\* yaml.dump(config_data, sort_keys=True) of self.model_dump()
Dump(config) ==
    <<DumpLine("author_name", config["author_name"]),
      DumpLine("template_sources", config["template_sources"]),
      DumpLine("use_nix", config["use_nix"])>>

\* str.lower() on the words the model uses
Lower(s) ==
    CASE s \in {"YES", "Yes"} -> "yes"
      [] s \in {"OFF", "Off"} -> "off"
      [] s \in {"TRUE", "True"} -> "true"
      [] s \in {"FALSE", "False"} -> "false"
      [] s \in {"ON", "On"} -> "on"
      [] s \in {"NO", "No"} -> "no"
      [] OTHER -> s

\* pydantic's validation of one field value in its default (lax) mode:
\* [ok, v]
ValidateField(k, v) ==
    CASE FieldType(k) = "bool" ->
            IF v.t = "bool" THEN [ok |-> TRUE, v |-> v]
            ELSE IF v.t \in {"str", "int"}
                    /\ Lower(v.s) \in {"1", "on", "t", "true", "y", "yes"}
              THEN [ok |-> TRUE, v |-> Py("bool", "true")]
            ELSE IF v.t \in {"str", "int"}
                    /\ Lower(v.s) \in {"0", "off", "f", "false", "n", "no"}
              THEN [ok |-> TRUE, v |-> Py("bool", "false")]
            ELSE [ok |-> FALSE, v |-> v]
      [] FieldType(k) = "str" -> [ok |-> v.t = "str", v |-> v]
      [] FieldType(k) = "dict" -> [ok |-> v.t = "dict", v |-> v]

\* cls.model_validate(data): ValidationError unless data is a mapping whose
\* known keys validate; unknown keys are ignored, missing ones defaulted
ModelValidate(data) ==
    IF data.t # "map" THEN [exc |-> "ValidationError", config |-> DefaultConfig]
    ELSE LET given == Fields \cap DOMAIN data.m
         IN  IF \E k \in given : ~ValidateField(k, data.m[k]).ok
               THEN [exc |-> "ValidationError", config |-> DefaultConfig]
             ELSE [exc |-> "none",
                   config |-> [k \in Fields |->
                                 IF k \in given THEN ValidateField(k, data.m[k]).v
                                 ELSE DefaultConfig[k]]]

\* a configuration file: absent, or a regular file with its text
NoFile == [there |-> FALSE, text |-> <<>>]
TextFile(text) == [there |-> TRUE, text |-> text]

RECURSIVE LoadFrom(_, _, _)
\* the loop of UserConfig.load from position i of the search list; `source`
\* is the file whose settings are returned, "none" for the defaults
LoadFrom(files, paths, i) ==
    IF i > Len(paths)
      THEN [exc |-> "none", config |-> DefaultConfig, source |-> "none", at |-> "none"]
    ELSE IF ~files[paths[i]].there THEN LoadFrom(files, paths, i + 1)
    ELSE LET data == SafeLoad(files[paths[i]].text)
         IN  IF data.exc # "none"
               THEN [exc |-> "ConfigurationError", config |-> DefaultConfig,
                     source |-> "none", at |-> paths[i]]
             ELSE IF data.t = "none" THEN LoadFrom(files, paths, i + 1)
             ELSE LET made == ModelValidate(data)
                  IN  IF made.exc # "none"
                        THEN [exc |-> "ConfigurationError", config |-> DefaultConfig,
                              source |-> "none", at |-> paths[i]]
                      ELSE [exc |-> "none", config |-> made.config,
                            source |-> paths[i], at |-> paths[i]]

\* UserConfig.load()
Load(files, envSet) == LoadFrom(files, GetConfigPaths(envSet), 1)

\* UserConfig.get_effective_config_path(): the first location that exists
GetEffectiveConfigPath(files, envSet) ==
    LET paths == GetConfigPaths(envSet)
        found == {i \in 1..Len(paths) : files[paths[i]].there}
    IN  IF found = {} THEN "none"
        ELSE paths[CHOOSE i \in found : \A j \in found : i <= j]

\* the path save() and initialize_config() choose when none is given:
\* config_paths[2] if len(config_paths) > 2 else config_paths[-1]
DefaultSavePath(envSet) ==
    LET paths == GetConfigPaths(envSet)
    IN  IF Len(paths) > 2 THEN paths[3] ELSE paths[Len(paths)]

\* UserConfig.save(path=None): the files afterwards and the path returned
Save(files, envSet, config) ==
    LET path == DefaultSavePath(envSet)
    IN  [files |-> [files EXCEPT ![path] = TextFile(Dump(config))], path |-> path,
         exc |-> "none"]

\* ConfigManager.initialize_config(path=None, overwrite)
InitializeConfig(files, envSet, overwrite) ==
    LET path == DefaultSavePath(envSet)
    IN  IF files[path].there /\ ~overwrite
          THEN [files |-> files, path |-> path, exc |-> "ConfigurationError"]
        ELSE Save(files, envSet, DefaultConfig)

\* UserConfig.update_setting(key, value): the configuration afterwards.
\* hasattr() finds the fields and attributes that are no fields, as save
UpdateSetting(config, key, value) ==
    IF key \notin Fields \cup {"save"} THEN [exc |-> "ConfigurationError", config |-> config]
    ELSE IF key \notin Fields THEN [exc |-> "KeyError", config |-> config]
    ELSE IF FieldType(key) = "bool"
      THEN IF Lower(value) \in {"true", "yes", "1", "on"}
             THEN [exc |-> "none", config |-> [config EXCEPT ![key] = Py("bool", "true")]]
           ELSE IF Lower(value) \in {"false", "no", "0", "off"}
             THEN [exc |-> "none", config |-> [config EXCEPT ![key] = Py("bool", "false")]]
           ELSE [exc |-> "ConfigurationError", config |-> config]
    ELSE [exc |-> "none", config |-> [config EXCEPT ![key] = Py("str", value)]]

\* `devman config --set key=value` without --path: load, update_setting, save;
\* a ConfigurationError ends the command with exit code 1, any other
\* exception escapes it
ConfigSet(files, envSet, key, value) ==
    LET loaded == Load(files, envSet)
        updated == UpdateSetting(loaded.config, key, value)
        saved == Save(files, envSet, updated.config)
    IN  IF loaded.exc # "none"
          THEN [files |-> files, exit |-> 1, exc |-> loaded.exc, path |-> "none",
                config |-> DefaultConfig]
        ELSE IF updated.exc # "none"
          THEN [files |-> files, exit |-> 1, exc |-> updated.exc, path |-> "none",
                config |-> loaded.config]
        ELSE [files |-> saved.files, exit |-> 0, exc |-> "none", path |-> saved.path,
              config |-> updated.config]

\* no configuration call has returned yet. source: the file whose settings
\* load returned; at: the file load stopped at; path: the path returned;
\* afterSet: the last write was a successful `config --set key=value`, which
\* stored conv under key
NoOutcome ==
    [op |-> "none", exc |-> "none", exit |-> 0, config |-> DefaultConfig,
     source |-> "none", at |-> "none", path |-> "none",
     afterSet |-> FALSE, key |-> "none", conv |-> Py("none", ""), writes |-> 0]

\* the state of the configuration before any file is there
NoCfg == [env |-> FALSE, files |-> [s \in Slots |-> NoFile], before |-> [s \in Slots |-> NoFile],
          out |-> NoOutcome]

----------------------------------------------------------------------------
(* remote.py and validation.py: template references and their resolution *)

\* a template reference or URL: the prefix the code tests with startswith,
\* and the rest
Str(prefix, rest) == <<prefix, rest>>

\* builtin_templates of resolve_template_path
BuiltinTemplates ==
    {Str("", "python-lib"), Str("", "python-cli"), Str("", "fastapi-api")}

\* TemplateRegistry._is_git_url(url), also RemoteTemplate.validate_url
IsGitUrl(url) ==
    url[1] \in {"git+", "https://github.com/", "git@github.com:",
                "https://gitlab.com/", "git@gitlab.com:", "https://"}

\* what a directory may be to TemplateValidator: missing, a regular file, a
\* directory without copier.yml, a directory holding copier.yml only, a
\* directory with copier.yml and files to copy
Shapes == {"absent", "file", "bare", "empty", "template"}

\* TemplateValidator.validate_template(path): the exception raised
ValidateTemplate(shape) ==
    IF shape = "template" THEN "none" ELSE "TemplateValidationError"

\* _generate_cache_key(url, ref): the digest of f"{url}#{ref or 'main'}"
GenerateCacheKey(url, ref) == <<url, IF ref = "none" THEN "main" ELSE ref>>

\* the branch `git clone` checks out: --branch ref, or the remote HEAD
Branch(ref, head) == IF ref = "none" THEN head ELSE ref

\* no clone in the cache
NoClone == [there |-> FALSE, url |-> Str("", ""), branch |-> "none"]

\* _clone_template(url, ref): the cache afterwards and the path returned, a
\* cached clone being returned as it is
CloneTemplate(cache, url, ref, cloneOk, head) ==
    LET key == GenerateCacheKey(url, ref)
    IN  IF cache[key].there THEN [exc |-> "none", cache |-> cache, key |-> key]
        ELSE IF ~cloneOk
          THEN [exc |-> "TemplateNotFoundError", cache |-> cache, key |-> key]
        ELSE [exc |-> "none", key |-> key,
              cache |-> [cache EXCEPT ![key] =
                            [there |-> TRUE, url |-> url, branch |-> Branch(ref, head)]]]

\* no template registered under a name
NoEntry == [there |-> FALSE, url |-> Str("", ""), ref |-> "none"]

\* TemplateRegistry.save(): registry.json, each template by its model_dump()
RegistrySave(templates) ==
    [there |-> TRUE,
     data |-> [n \in {m \in DOMAIN templates : templates[m].there} |->
                 [name |-> n, url |-> templates[n].url, ref |-> templates[n].ref]]]

\* TemplateRegistry.load(): an empty registry when registry.json is missing
RegistryLoad(disk, names) ==
    [n \in names |->
        IF disk.there /\ n \in DOMAIN disk.data
          THEN [there |-> TRUE, url |-> disk.data[n].url, ref |-> disk.data[n].ref]
          ELSE NoEntry]

\* TemplateRegistry.add_template(name, url, ref, force=force): the templates
\* afterwards and whether save() ran; cloneOk: the trial clone succeeds
AddTemplate(templates, name, url, ref, force, cloneOk) ==
    IF templates[name].there /\ ~force
      THEN [exc |-> "ConfigurationError", templates |-> templates, saved |-> FALSE]
    ELSE IF ~IsGitUrl(url) THEN [exc |-> "ValidationError", templates |-> templates,
                                 saved |-> FALSE]
    ELSE IF ~cloneOk THEN [exc |-> "ConfigurationError", templates |-> templates,
                           saved |-> FALSE]
    ELSE [exc |-> "none", saved |-> TRUE,
          templates |-> [templates EXCEPT ![name] =
                            [there |-> TRUE, url |-> url, ref |-> ref]]]

\* the only string that names an entry of the working directory
LocalName == Str("", "tpl")

\* where a resolved path lies: the package's templates directory or the
\* working directory, under the name given, or the cache, under a key
PathTo(at, key) == [at |-> at, key |-> key]

\* the key of a path that is no clone: the name alone
Named(ref) == <<ref, "">>

\* TemplateRegistry.resolve_template_path(template_ref); local: what
\* Path(LocalName) is
RegistryResolve(templates, cache, ref, cloneOk, head, local) ==
    IF ref \in BuiltinTemplates
      THEN [exc |-> "none", cache |-> cache, path |-> PathTo("builtin", Named(ref))]
    ELSE IF ref[1] = "gh:" \/ IsGitUrl(ref) \/ (ref \in DOMAIN templates /\ templates[ref].there)
      THEN LET url == IF ref[1] = "gh:" THEN Str("https://github.com/", ref[2])
                      ELSE IF IsGitUrl(ref) THEN ref ELSE templates[ref].url
               r == CloneTemplate(cache, url,
                                  IF ref[1] # "gh:" /\ ~IsGitUrl(ref)
                                    THEN templates[ref].ref ELSE "none",
                                  cloneOk, head)
           IN  [exc |-> r.exc, cache |-> r.cache, path |-> PathTo("cache", r.key)]
    ELSE IF ref = LocalName /\ local # "absent"
      THEN [exc |-> "none", cache |-> cache, path |-> PathTo("local", Named(ref))]
    ELSE [exc |-> "TemplateNotFoundError", cache |-> cache, path |-> PathTo("none", Named(ref))]

\* the shape of the directory a resolved path names
ShapeAt(path, shapes) ==
    CASE path.at = "builtin" -> shapes.builtin
      [] path.at = "cache" -> shapes.clone
      [] path.at = "local" -> IF path.key = Named(LocalName) THEN shapes.local ELSE "absent"
      [] OTHER -> "absent"

\* TemplateEngine._validate_template_path(Path(ref)): validate_template_path
\* on the path, every exception turned into TemplateNotFoundError
ValidateTemplatePath(ref, shapes) ==
    IF ValidateTemplate(ShapeAt(PathTo("local", Named(ref)), shapes)) = "none"
      THEN [exc |-> "none", path |-> PathTo("local", Named(ref))]
      ELSE [exc |-> "TemplateNotFoundError", path |-> PathTo("none", Named(ref))]

\* TemplateEngine._resolve_template_path(template_path), as generate_project
\* and create_plan call it: a Path is validated; a string goes to the
\* registry, and to the validation only when the registry raises
ResolveTemplatePath(templates, cache, isPath, ref, cloneOk, head, shapes) ==
    IF isPath
      THEN LET v == ValidateTemplatePath(ref, shapes)
           IN  [exc |-> v.exc, cache |-> cache, path |-> v.path]
    ELSE LET r == RegistryResolve(templates, cache, ref, cloneOk, head, shapes.local)
         IN  IF r.exc = "none" THEN r
             ELSE LET v == ValidateTemplatePath(ref, shapes)
                  IN  [exc |-> v.exc, cache |-> r.cache, path |-> v.path]

\* names a template may be registered under
Names == {Str("", "mine"), Str("", "python-lib")}

\* no registry call has returned yet
NoRegOutcome ==
    [op |-> "none", exc |-> "none", name |-> Str("", ""), url |-> Str("", ""),
     ref |-> "none", force |-> FALSE, isPath |-> FALSE,
     path |-> PathTo("none", Named(Str("", ""))), wasThere |-> FALSE]

\* an empty registry, no registry.json, a cache with no clone of either
\* repository
NoReg ==
    [templates |-> [n \in Names |-> NoEntry],
     disk |-> [there |-> FALSE, data |-> <<>>],
     before |-> [n \in Names |-> NoEntry],
     cache |-> [k \in {GenerateCacheKey(Str("https://", "h/r"), "none"),
                       GenerateCacheKey(Str("https://github.com/", "o/r"), "none")}
                  |-> NoClone],
     head |-> "main",
     shapes |-> [builtin |-> "template", clone |-> "template", local |-> "absent"],
     out |-> NoRegOutcome]

----------------------------------------------------------------------------
(* validation.py: validate_destination and the destination's parent *)

\* the write-permission probe of validate_destination in directory d:
\* test_file.touch() creates the file or updates the times of what is there,
\* test_file.unlink() removes a file and raises IsADirectoryError on a
\* directory; PermissionError becomes InvalidProjectNameError
Probe(d) ==
    CASE d.probe.k = "none" ->
            [exc |-> IF d.writable THEN "none" ELSE "InvalidProjectNameError", dir |-> d]
      [] d.probe.k = "file" ->
            IF d.writable THEN [exc |-> "none", dir |-> [d EXCEPT !.probe = NoObj]]
            ELSE [exc |-> "InvalidProjectNameError", dir |-> d]
      [] d.probe.k = "dir" -> [exc |-> "IsADirectoryError", dir |-> d]

\* ProjectValidator.validate_destination(destination, force) with the parent
\* directory in view. d.parent: what destination.parent is; d.writable: the
\* user may create entries in it (or create it); d.probe: what
\* parent/.devman_test_<name> is; d.other: another entry of the parent;
\* d.dest: the destination, missing, a file, an empty or a non-empty directory
ValidateDestinationIn(d, force) ==
    IF d.dest = "file" THEN [exc |-> "InvalidProjectNameError", dir |-> d]
    ELSE IF d.dest = "full" /\ ~force THEN [exc |-> "ProjectExistsError", dir |-> d]
    ELSE IF d.parent = "absent"
      THEN IF d.writable THEN Probe([d EXCEPT !.parent = "dir"])
           ELSE [exc |-> "InvalidProjectNameError", dir |-> d]
    ELSE IF d.parent = "file" THEN [exc |-> "InvalidProjectNameError", dir |-> d]
    ELSE Probe(d)

\* a destination whose parent directory is missing and can be made; no
\* call has returned
NoVal ==
    [dir |-> [parent |-> "absent", writable |-> TRUE, probe |-> NoObj, other |-> NoObj,
              dest |-> "absent"],
     before |-> [parent |-> "absent", writable |-> TRUE, probe |-> NoObj,
                 other |-> NoObj, dest |-> "absent"],
     op |-> "none", force |-> FALSE, exc |-> "none"]

----------------------------------------------------------------------------
(* models.py and validation.py: ProjectConfig and the names it accepts *)

\* a name is a sequence of characters; the characters of the model's names
NameChars == {"p", "i", "f", "A", "9", "_", "-", " "}

\* longest project name
MaxName == 3

\* str.lower() of one character
LowerChar(c) == IF c = "A" THEN "a" ELSE c

\* ProjectValidator.RESERVED_NAMES
ReservedNames ==
    {<<"c", "o", "n">>, <<"p", "r", "n">>, <<"a", "u", "x">>,
     <<"n", "u", "l">>, <<"p", "y", "t", "h", "o", "n">>, <<"p", "i", "p">>,
     <<"s", "e", "t", "u", "p", "t", "o", "o", "l", "s">>, <<"s", "r", "c">>,
     <<"l", "i", "b">>}

\* keyword.kwlist
Keywords ==
    {<<"F", "a", "l", "s", "e">>, <<"N", "o", "n", "e">>,
     <<"T", "r", "u", "e">>, <<"a", "n", "d">>, <<"a", "s">>,
     <<"a", "s", "s", "e", "r", "t">>, <<"a", "s", "y", "n", "c">>,
     <<"a", "w", "a", "i", "t">>, <<"b", "r", "e", "a", "k">>,
     <<"c", "l", "a", "s", "s">>, <<"c", "o", "n", "t", "i", "n", "u", "e">>,
     <<"d", "e", "f">>, <<"d", "e", "l">>, <<"e", "l", "i", "f">>,
     <<"e", "l", "s", "e">>, <<"e", "x", "c", "e", "p", "t">>,
     <<"f", "i", "n", "a", "l", "l", "y">>, <<"f", "o", "r">>,
     <<"f", "r", "o", "m">>, <<"g", "l", "o", "b", "a", "l">>, <<"i", "f">>,
     <<"i", "m", "p", "o", "r", "t">>, <<"i", "n">>, <<"i", "s">>,
     <<"l", "a", "m", "b", "d", "a">>,
     <<"n", "o", "n", "l", "o", "c", "a", "l">>, <<"n", "o", "t">>,
     <<"o", "r">>, <<"p", "a", "s", "s">>, <<"r", "a", "i", "s", "e">>,
     <<"r", "e", "t", "u", "r", "n">>, <<"t", "r", "y">>,
     <<"w", "h", "i", "l", "e">>, <<"w", "i", "t", "h">>,
     <<"y", "i", "e", "l", "d">>}

\* ProjectValidator.validate_project_name(name): the exception raised
ValidateProjectName(name) ==
    LET letters == {"p", "i", "f", "a", "A"}
        lowered == [i \in 1..Len(name) |-> LowerChar(name[i])]
    IN  IF \/ name = <<>>
           \/ \A i \in 1..Len(name) : name[i] = " "
           \/ Len(name) > 100
           \/ Len(name) < 2
           \/ name[1] \notin letters \cup {"_"}
           \/ \E i \in 1..Len(name) : name[i] \notin letters \cup {"9", "_", "-"}
           \/ lowered \in ReservedNames
           \/ name[1] = "-"
           \/ name[Len(name)] \in {"-", "_"}
          THEN "InvalidProjectNameError"
        ELSE "none"

\* ProjectValidator.validate_package_name(name): the exception raised
ValidatePackageName(name) ==
    LET letters == {"p", "i", "f", "a", "A"}
    IN  IF name = <<>> THEN "none"
        ELSE IF \/ name[1] \notin letters \cup {"_"}
                \/ \E i \in 1..Len(name) : name[i] \notin letters \cup {"9", "_"}
                \/ name \in Keywords
          THEN "InvalidProjectNameError"
        ELSE "none"

RECURSIVE StripChars(_, _)
\* str.strip(): s without the characters of cs at either end
StripChars(s, cs) ==
    IF s = <<>> THEN s
    ELSE IF Head(s) \in cs THEN StripChars(Tail(s), cs)
    ELSE IF s[Len(s)] \in cs THEN StripChars(SubSeq(s, 1, Len(s) - 1), cs)
    ELSE s

\* ProjectConfig._slugify(name): strip, lower, every run of characters
\* outside [a-z0-9_-] and every run of hyphens made one hyphen, hyphens
\* stripped from the ends, "project" when nothing is left
Slugify(name) ==
    LET stripped == StripChars(name, {" "})
        lowered == [i \in 1..Len(stripped) |-> LowerChar(stripped[i])]
        hyphened == [i \in 1..Len(lowered) |->
                       IF lowered[i] \in {"p", "i", "f", "a", "9", "_", "-"}
                         THEN lowered[i] ELSE "-"]
        kept == {i \in 1..Len(hyphened) :
                    ~(hyphened[i] = "-" /\ i > 1 /\ hyphened[i - 1] = "-")}
        nth(n) == CHOOSE i \in kept : Cardinality({j \in kept : j <= i}) = n
        collapsed == [n \in 1..Cardinality(kept) |-> hyphened[nth(n)]]
        slug == StripChars(collapsed, {"-"})
    IN  IF slug = <<>> THEN <<"p", "r", "o", "j", "e", "c", "t">> ELSE slug

\* ProjectConfig(project_name=name, project_slug=slug, package_name=package),
\* <<>> for an argument left out: the field validators, then
\* model_post_init
NewProjectConfig(name, slug, package) ==
    IF ValidateProjectName(name) # "none" \/ ValidatePackageName(package) # "none"
      THEN [exc |-> "InvalidProjectNameError", project_slug |-> <<>>,
            package_name |-> <<>>]
    ELSE LET s == IF slug = <<>> THEN Slugify(name) ELSE slug
         IN  [exc |-> "none", project_slug |-> s,
              package_name |-> IF package = <<>>
                                 THEN [i \in 1..Len(s) |->
                                         IF s[i] = "-" THEN "_" ELSE s[i]]
                               ELSE package]

\* no ProjectConfig has been constructed
NoPc ==
    [name |-> <<>>, slug |-> <<>>, package |-> <<>>, op |-> "none", exc |-> "none",
     project_slug |-> <<>>, package_name |-> <<>>]

----------------------------------------------------------------------------
(* The state machine *)

\* no call has returned since the destination last changed: a Plan is consumed
\* at once and made afresh when the destination has changed
NoRet ==
    [op |-> "none", force |-> FALSE, exc |-> "none", plan |-> <<>>,
     again |-> FALSE, prevExc |-> "none", prevPlan |-> <<>>]
\* renderFailed: run_copy raised in the call; cause: the original_error of
\* the exception; returned: the call returned a GenerationPlan
NoERet ==
    [op |-> "none", force |-> FALSE, exc |-> "none", value |-> <<>>,
     renderFailed |-> FALSE, cause |-> "none", returned |-> FALSE]

RenderedFiles == { p \in Paths : rendered[p].k = "file" }

\* how a render may end: completely, the sandbox then listed in some order
\* (by rglob, and by os.walk) and read, or read until a read raises, or
\* run_copy raising with some of the files materialised
RenderInputs ==
    {[fail |-> FALSE, written |-> Paths, rglob |-> l, walk |-> w, unreadable |-> FALSE] :
        l \in Perms(RenderedFiles), w \in Perms(RenderedFiles)}
      \cup {[fail |-> FALSE, written |-> Paths, rglob |-> l, walk |-> l,
              unreadable |-> TRUE] : l \in Perms(RenderedFiles) \ {<<>>}}
      \cup {[fail |-> TRUE, written |-> w, rglob |-> <<>>, walk |-> <<>>,
              unreadable |-> FALSE] : w \in SUBSET RenderedFiles}

\* the template argument does not resolve, or it does and the render ends in
\* one of the ways above
CreatePlanInputs ==
    {[found |-> FALSE, fail |-> FALSE, written |-> {}, rglob |-> <<>>,
      unreadable |-> FALSE]}
      \cup {[found |-> TRUE, fail |-> i.fail, written |-> i.written, rglob |-> i.rglob,
              unreadable |-> i.unreadable] :
                i \in {j \in RenderInputs : j.walk = j.rglob}}

\* the templates of a run: the dotfile is absent or has any content; the
\* nested file is absent, a text file or a binary file
RenderChoices(p) ==
    IF p = ".e" THEN {NoObj} \cup {FileObj(c) : c \in Contents}
    ELSE {NoObj, FileObj(<<65>>), FileObj(<<255>>)}

Init ==
    /\ rendered \in {r \in [Paths -> {NoObj} \cup {FileObj(c) : c \in Contents}] :
                        \A p \in Paths : r[p] \in RenderChoices(p)}
    /\ fs = [r \in {"dest", "tmp"} |-> AbsentTree]
    /\ snapshot = <<>>
    /\ ret = NoRet
    /\ gplan = NoPlan
    /\ eret = NoERet
    /\ api \in {"copier_engine", "models"}
    /\ cli = NoCli
    /\ cfg = NoCfg
    /\ reg = NoReg
    /\ val = NoVal
    /\ pc = NoPc

\* a call of snapshot_render_to_memory(template, data)
SnapshotCall ==
    /\ api = "copier_engine"
    /\ \E o \in RenderInputs :
        LET r == SnapshotRenderToMemory(fs, o.fail, o.written, o.rglob, o.walk,
                                        o.unreadable)
        IN  /\ fs' = r.fs
            /\ snapshot' = IF r.exc = "none" THEN r.value ELSE snapshot
            /\ ret' = [NoRet EXCEPT !.op = "snapshot", !.exc = r.exc]
            /\ UNCHANGED <<rendered, gplan, eret, api, cli, cfg, reg, val, pc>>

\* a call of plan_against_destination(snapshot, dest, force=force); `again`
\* records that the call before it was the same call on the same destination,
\* with what that call returned
PlanCall ==
    /\ api = "copier_engine"
    /\ \E force \in BOOLEAN :
        LET r == PlanAgainstDestination(snapshot, fs["dest"], force)
            again == ret.op = "plan" /\ ret.force = force
        IN  /\ ret' = [op |-> "plan", force |-> force, exc |-> r.exc, plan |-> r.value,
                       again |-> again,
                       prevExc |-> IF again THEN ret.exc ELSE "none",
                       prevPlan |-> IF again THEN ret.plan ELSE <<>>]
            /\ UNCHANGED <<rendered, fs, snapshot, gplan, eret, api, cli, cfg, reg, val, pc>>

\* a call of TemplateEngine.create_plan(template, destination, config)
CreatePlanCall ==
    /\ api = "models"
    /\ \E o \in CreatePlanInputs :
        LET r == CreatePlan(fs, o.found, o.fail, o.written, o.rglob, o.unreadable)
        IN  /\ fs' = r.fs
            /\ gplan' = IF r.exc = "none" THEN r.plan ELSE gplan
            /\ eret' = [op |-> "create_plan", force |-> FALSE, exc |-> r.exc,
                        value |-> r.plan.conflicts,
                        renderFailed |-> o.found /\ o.fail, cause |-> r.cause,
                        returned |-> r.plan.made]
            /\ UNCHANGED <<rendered, snapshot, ret, api, cli, cfg, reg, val, pc>>

\* a call of plan.analyze_conflicts(force) on the plan create_plan returned
AnalyzeCall ==
    /\ api = "models"
    /\ gplan.made
    /\ \E force \in BOOLEAN :
        LET r == AnalyzeConflicts(gplan, fs["dest"], force)
        IN  /\ gplan' = r.plan
            /\ eret' = [NoERet EXCEPT !.op = "analyze", !.force = force,
                                       !.value = r.value]
            /\ UNCHANGED <<rendered, fs, snapshot, ret, api, cli, cfg, reg, val, pc>>

\* the user creates the destination root: a directory, or a plain file
DestCreate ==
    /\ fs["dest"].kind = "absent"
    /\ \E t \in {EmptyDir, PlainFile} : fs' = [fs EXCEPT !["dest"] = t]
    /\ ret' = NoRet
    /\ eret' = NoERet
    /\ gplan' = NoPlan
    /\ UNCHANGED <<rendered, snapshot, api, cli, cfg, reg, val, pc>>

\* the user creates a file or a directory in the destination, or removes one
DestChange ==
    /\ fs["dest"].kind = "dir"
    /\ \E p \in Paths :
        \/ /\ fs["dest"].files[p] = NoObj
           /\ \E obj \in {DirObj} \cup {FileObj(c) : c \in Contents} :
                fs' = [fs EXCEPT !["dest"].files[p] = obj]
        \/ /\ fs["dest"].files[p] # NoObj
           /\ fs' = [fs EXCEPT !["dest"].files[p] = NoObj]
    /\ ret' = NoRet
    /\ eret' = NoERet
    /\ gplan' = NoPlan
    /\ UNCHANGED <<rendered, snapshot, api, cli, cfg, reg, val, pc>>

Next ==
    \/ SnapshotCall
    \/ PlanCall
    \/ CreatePlanCall
    \/ AnalyzeCall
    \/ DestCreate
    \/ DestChange

Spec == Init /\ [][Next]_vars

----------------------------------------------------------------------------
(* The command line and generate_project *)

\* the ways the render of create_plan may end, the template resolving; what a
\* failed render left in the sandbox is gone with the sandbox
PlanInputs == { o \in CreatePlanInputs : o.found /\ (o.fail => o.written = {}) }

DefaultPlanInput == CHOOSE o \in PlanInputs : ~o.fail /\ ~o.unreadable
DefaultGenInput == [fail |-> FALSE, written |-> Paths]

CliDefaults ==
    [early |-> "ok", demo |-> FALSE, force |-> FALSE, export |-> "none",
     found |-> TRUE, plan |-> DefaultPlanInput, parent |-> "writable",
     gen |-> DefaultGenInput]

\* the create_plan of the command would report a conflict
WouldConflict(fsys, o) ==
    LET r == CreatePlan(fsys, TRUE, o.fail, o.written, o.rglob, o.unreadable)
    IN  r.exc = "none" /\ r.plan.conflicts # <<>>

\* the runs of the command over the defaults d, the plan inputs split into
\* those that end in a conflict and the others, and the write inputs gens:
\* ended before the engine is made; the template not resolving; demo runs;
\* runs without --force that stop at the conflict check or go on to
\* generate_project (the check having passed, or failed in one way); runs
\* with --force
CliInputsOver(d, conflicting, others, gens) ==
    {[d EXCEPT !.early = e] : e \in {"config_error", "invalid_name"}}
      \cup {[d EXCEPT !.found = FALSE, !.demo = dm, !.force = f] :
                dm \in BOOLEAN, f \in BOOLEAN}
      \cup {[d EXCEPT !.demo = TRUE, !.force = f, !.plan = o] :
                f \in BOOLEAN, o \in conflicting \cup others}
      \cup {[d EXCEPT !.demo = TRUE, !.plan = o, !.export = x] :
                o \in {q \in conflicting \cup others : ~q.fail /\ ~q.unreadable},
                x \in ExportTargets \ {"none"}}
      \cup {[d EXCEPT !.plan = o] : o \in conflicting}
      \cup {[d EXCEPT !.plan = o, !.parent = pa, !.gen = g] :
                o \in {q \in others : q.fail \/ q = d.plan},
                pa \in Parents, g \in gens}
      \cup {[d EXCEPT !.force = TRUE, !.parent = pa, !.gen = g] :
                pa \in Parents, g \in gens}

CliInputs(fsys) ==
    CliInputsOver(CliDefaults,
                  {q \in PlanInputs : WouldConflict(fsys, q)},
                  {q \in PlanInputs : ~WouldConflict(fsys, q)},
                  GenInputs(fsys["dest"]))

\* the templates of a run of the command: each path absent, or one of the
\* shortest and one of the longest contents
CliContents ==
    { c \in Contents : Len(c) = 1 /\ c[1] \in {65, 255} }
      \cup { c \in Contents : Len(c) = MaxLen /\ c[1] >= 128 /\ Utf8Decode(c).ok }

\* what the user puts at a path of the destination
UserObjects == {DirObj, FileObj(<<65>>)}

CliInit ==
    /\ rendered \in {r \in [Paths -> {NoObj} \cup {FileObj(c) : c \in CliContents}] :
                        \A p \in Paths : r[p] \in RenderChoices(p)}
    /\ fs = [r \in {"dest", "tmp"} |-> AbsentTree]
    /\ snapshot = <<>>
    /\ ret = NoRet
    /\ gplan = NoPlan
    /\ eret = NoERet
    /\ api = "cli"
    /\ cli = NoCli
    /\ cfg = NoCfg
    /\ reg = NoReg
    /\ val = NoVal
    /\ pc = NoPc

\* a run of `devman generate NAME [--demo] [--force] [--plan-json FILE]`
GenerateCommand ==
    /\ api = "cli"
    /\ \E i \in CliInputs(fs) :
        LET r == Generate(fs, i)
        IN  /\ fs' = r.fs
            /\ cli' = [op |-> "generate", early |-> i.early, demo |-> i.demo,
                       force |-> i.force, found |-> i.found, parent |-> i.parent,
                       export |-> i.export,
                       exit |-> r.exit, exc |-> r.exc, called |-> r.called,
                       wrote |-> r.wrote, planMade |-> r.planMade, files |-> r.files,
                       conflicts |-> r.conflicts, exported |-> r.exported,
                       before |-> fs["dest"]]
            /\ UNCHANGED <<rendered, snapshot, ret, gplan, eret, api, cfg, reg, val, pc>>

\* a call of TemplateEngine.generate_project(template, destination, config,
\* force=force)
GenerateProjectCall ==
    /\ api = "cli"
    /\ \E found \in BOOLEAN, force \in BOOLEAN, pa \in Parents,
          g \in GenInputs(fs["dest"]) :
        LET r == GenerateProject(fs, found, force, pa, g.fail, g.written)
        IN  /\ fs' = r.fs
            /\ cli' = [NoCli EXCEPT !.op = "generate_project", !.force = force,
                                    !.found = found, !.parent = pa,
                                    !.exit = IF r.exc = "none" THEN 0 ELSE 1,
                                    !.exc = r.exc, !.called = TRUE, !.wrote = r.wrote,
                                    !.before = fs["dest"]]
            /\ UNCHANGED <<rendered, snapshot, ret, gplan, eret, api, cfg, reg, val, pc>>

\* the user creates the destination root: a directory, or a plain file
UserCreatesDestination ==
    /\ fs["dest"].kind = "absent"
    /\ \E t \in {EmptyDir, PlainFile} : fs' = [fs EXCEPT !["dest"] = t]
    /\ cli' = NoCli
    /\ UNCHANGED <<rendered, snapshot, ret, gplan, eret, api, cfg, reg, val, pc>>

\* the user creates a file or a directory in the destination, or removes one
UserChangesDestination ==
    /\ fs["dest"].kind = "dir"
    /\ \E p \in Paths :
        \/ /\ fs["dest"].files[p] = NoObj
           /\ \E obj \in UserObjects : fs' = [fs EXCEPT !["dest"].files[p] = obj]
        \/ /\ fs["dest"].files[p] # NoObj
           /\ fs' = [fs EXCEPT !["dest"].files[p] = NoObj]
    /\ cli' = NoCli
    /\ UNCHANGED <<rendered, snapshot, ret, gplan, eret, api, cfg, reg, val, pc>>

CliNext ==
    \/ GenerateCommand
    \/ GenerateProjectCall
    \/ UserCreatesDestination
    \/ UserChangesDestination

CliSpec == CliInit /\ [][CliNext]_vars

----------------------------------------------------------------------------
(* The configuration commands *)

\* how many writes of a configuration file one behaviour holds
MaxWrites == 1

\* texts a user may have put at a location: nothing, a setting of either
\* kind, a flow sequence left open, a float where a string is required, a
\* bare scalar
UserTexts ==
    { <<>>,
      <<YamlLine("use_nix", FALSE, "false")>>,
      <<YamlLine("author_name", FALSE, "Ann")>>,
      <<YamlLine("invalid", FALSE, "yaml: content: [")>>,
      <<YamlLine("author_name", FALSE, "3.11")>>,
      <<YamlLine("", FALSE, "x")>> }

\* key=value arguments of `config --set`
SetArguments ==
    { <<"use_nix", "off">>, <<"use_nix", "YES">>, <<"use_nix", "maybe">>,
      <<"author_name", "yes">>, <<"author_name", "Bob">>,
      <<"template_sources", "x">>, <<"nope", "1">>, <<"save", "1">> }

\* DEVMAN_CONFIG is set or not; every location holds any of the user's files,
\* the DEVMAN_CONFIG location only when the variable names it
ConfigInit ==
    /\ \E e \in BOOLEAN :
        \E f \in [Slots -> {NoFile} \cup {TextFile(t) : t \in UserTexts}] :
            /\ (~e => f["env"] = NoFile)
            /\ cfg = [env |-> e, files |-> f, before |-> f, out |-> NoOutcome]
    /\ rendered = [p \in Paths |-> NoObj]
    /\ fs = [r \in {"dest", "tmp"} |-> AbsentTree]
    /\ snapshot = <<>>
    /\ ret = NoRet
    /\ gplan = NoPlan
    /\ eret = NoERet
    /\ api = "config"
    /\ cli = NoCli
    /\ reg = NoReg
    /\ val = NoVal
    /\ pc = NoPc

\* what a call that wrote nothing leaves of the last outcome
Kept == [NoOutcome EXCEPT !.afterSet = cfg.out.afterSet, !.key = cfg.out.key,
                          !.conv = cfg.out.conv, !.writes = cfg.out.writes]

\* a call of UserConfig.load()
LoadCall ==
    /\ api = "config"
    /\ LET r == Load(cfg.files, cfg.env)
       IN  cfg' = [cfg EXCEPT !.before = cfg.files,
                              !.out = [Kept EXCEPT !.op = "load", !.exc = r.exc,
                                                   !.config = r.config,
                                                   !.source = r.source, !.at = r.at]]
    /\ UNCHANGED <<rendered, fs, snapshot, ret, gplan, eret, api, cli, reg, val, pc>>

\* a call of ConfigManager.show_config_info(): load, then
\* get_effective_config_path on the loaded configuration
ShowConfigInfo ==
    /\ api = "config"
    /\ LET r == Load(cfg.files, cfg.env)
           p == IF r.exc = "none" THEN GetEffectiveConfigPath(cfg.files, cfg.env)
                ELSE "none"
       IN  cfg' = [cfg EXCEPT !.before = cfg.files,
                              !.out = [Kept EXCEPT !.op = "show", !.exc = r.exc,
                                                   !.config = r.config,
                                                   !.source = r.source, !.at = r.at,
                                                   !.path = p]]
    /\ UNCHANGED <<rendered, fs, snapshot, ret, gplan, eret, api, cli, reg, val, pc>>

\* a call of config.save() with no path, on the defaults or on a
\* configuration with a setting changed
SaveCall ==
    /\ api = "config"
    /\ cfg.out.writes < MaxWrites
    /\ \E c \in {DefaultConfig,
                 [DefaultConfig EXCEPT !["use_nix"] = Py("bool", "false")]} :
        LET r == Save(cfg.files, cfg.env, c)
        IN  cfg' = [cfg EXCEPT !.files = r.files, !.before = cfg.files,
                               !.out = [NoOutcome EXCEPT !.op = "save", !.exc = r.exc,
                                                         !.config = c, !.path = r.path,
                                                         !.writes = cfg.out.writes + 1]]
    /\ UNCHANGED <<rendered, fs, snapshot, ret, gplan, eret, api, cli, reg, val, pc>>

\* a call of ConfigManager.initialize_config() with no path
InitializeConfigCall ==
    /\ api = "config"
    /\ cfg.out.writes < MaxWrites
    /\ \E overwrite \in BOOLEAN :
        LET r == InitializeConfig(cfg.files, cfg.env, overwrite)
        IN  cfg' = [cfg EXCEPT !.files = r.files, !.before = cfg.files,
                               !.out = [NoOutcome EXCEPT !.op = "init", !.exc = r.exc,
                                                         !.path = r.path,
                                                         !.writes = cfg.out.writes + 1]]
    /\ UNCHANGED <<rendered, fs, snapshot, ret, gplan, eret, api, cli, reg, val, pc>>

\* a run of `devman config --set key=value`
ConfigSetCommand ==
    /\ api = "config"
    /\ cfg.out.writes < MaxWrites
    /\ \E a \in SetArguments :
        LET r == ConfigSet(cfg.files, cfg.env, a[1], a[2])
        IN  cfg' = [cfg EXCEPT !.files = r.files, !.before = cfg.files,
                               !.out = [NoOutcome EXCEPT
                                          !.op = "set", !.exc = r.exc, !.exit = r.exit,
                                          !.config = r.config, !.path = r.path,
                                          !.afterSet = (r.exit = 0), !.key = a[1],
                                          !.conv = IF r.exit = 0 THEN r.config[a[1]]
                                                   ELSE Py("none", ""),
                                          !.writes = cfg.out.writes + 1]]
    /\ UNCHANGED <<rendered, fs, snapshot, ret, gplan, eret, api, cli, reg, val, pc>>

ConfigNext ==
    \/ LoadCall
    \/ ShowConfigInfo
    \/ SaveCall
    \/ InitializeConfigCall
    \/ ConfigSetCommand

ConfigSpec == ConfigInit /\ [][ConfigNext]_vars

----------------------------------------------------------------------------
(* The template registry and the resolution of template arguments *)

\* the template arguments of a call: the names, a GitHub shorthand, a Git
\* URL, the name of ./tpl, a string that names nothing
TemplateRefs ==
    Names \cup {Str("gh:", "o/r"), Str("https://", "h/r"), LocalName,
                Str("", "nowhere")}

\* the callers of a behaviour use the registry itself, or a TemplateEngine.
\* For the registry: the branch the remote HEAD names, ./tpl missing or a
\* template. For the engine: what the package's templates directory, a
\* clone and ./tpl are
TemplateInit ==
    /\ \/ /\ api = "registry"
          /\ \E h \in {"main", "master"}, l \in {"absent", "template"} :
                reg = [NoReg EXCEPT !.head = h, !.shapes.local = l]
       \/ /\ api = "engine"
          /\ \E b \in {"absent", "template"}, c \in {"bare", "template"},
                l \in Shapes :
                reg = [NoReg EXCEPT
                         !.shapes = [builtin |-> b, clone |-> c, local |-> l]]
    /\ rendered = [p \in Paths |-> NoObj]
    /\ fs = [r \in {"dest", "tmp"} |-> AbsentTree]
    /\ snapshot = <<>>
    /\ ret = NoRet
    /\ gplan = NoPlan
    /\ eret = NoERet
    /\ cli = NoCli
    /\ cfg = NoCfg
    /\ val = NoVal
    /\ pc = NoPc

\* a call of registry.add_template(name, url, ref, force=force), the url a
\* Git URL or another one, the ref none or main; the users of an engine
\* register the one repository, at its HEAD
AddTemplateCall ==
    /\ api \in {"registry", "engine"}
    /\ \E name \in Names, url \in {Str("https://", "h/r"), Str("ftp://", "h/r")},
          ref \in {"none", "main"}, force \in BOOLEAN, cloneOk \in BOOLEAN :
        LET r == AddTemplate(reg.templates, name, url, ref, force, cloneOk)
        IN  /\ api = "engine" => (IsGitUrl(url) /\ ref = "none" /\ ~force /\ cloneOk)
            /\ reg' = [reg EXCEPT
                         !.templates = r.templates,
                         !.before = reg.templates,
                         !.disk = IF r.saved THEN RegistrySave(r.templates)
                                  ELSE reg.disk,
                         !.out = [NoRegOutcome EXCEPT
                                    !.op = "add", !.exc = r.exc, !.name = name,
                                    !.url = url, !.ref = ref, !.force = force,
                                    !.wasThere = reg.templates[name].there]]
    /\ UNCHANGED <<rendered, fs, snapshot, ret, gplan, eret, api, cli, cfg, val, pc>>

\* a call of resolve_template_path(template_ref) on the registry in use, or
\* on one freshly loaded: TemplateRegistry.load().resolve_template_path(...)
ResolveCall ==
    /\ api = "registry"
    /\ \E ref \in TemplateRefs, cloneOk \in BOOLEAN, fresh \in BOOLEAN :
        LET templates == IF fresh THEN RegistryLoad(reg.disk, Names)
                         ELSE reg.templates
            r == RegistryResolve(templates, reg.cache, ref, cloneOk, reg.head,
                                 reg.shapes.local)
        IN  reg' = [reg EXCEPT
                      !.cache = r.cache,
                      !.before = reg.templates,
                      !.out = [NoRegOutcome EXCEPT
                                 !.op = IF fresh THEN "fresh" ELSE "resolve",
                                 !.exc = r.exc, !.name = ref, !.path = r.path]]
    /\ UNCHANGED <<rendered, fs, snapshot, ret, gplan, eret, api, cli, cfg, val, pc>>

\* the first step of generate_project and of create_plan on an engine whose
\* registry was loaded from disk: _resolve_template_path(template_path); the
\* path it returns is the one handed to Copier
ResolveTemplatePathCall ==
    /\ api = "engine"
    /\ \E ref \in TemplateRefs, isPath \in BOOLEAN, cloneOk \in BOOLEAN :
        LET r == ResolveTemplatePath(RegistryLoad(reg.disk, Names), reg.cache,
                                     isPath, ref, cloneOk, reg.head, reg.shapes)
        IN  reg' = [reg EXCEPT
                      !.cache = r.cache,
                      !.before = reg.templates,
                      !.out = [NoRegOutcome EXCEPT
                                 !.op = "engine", !.exc = r.exc, !.name = ref,
                                 !.isPath = isPath, !.path = r.path]]
    /\ UNCHANGED <<rendered, fs, snapshot, ret, gplan, eret, api, cli, cfg, val, pc>>

TemplateNext ==
    \/ AddTemplateCall
    \/ ResolveCall
    \/ ResolveTemplatePathCall

TemplateSpec == TemplateInit /\ [][TemplateNext]_vars

----------------------------------------------------------------------------
(* Destination validation and project configuration *)

\* a behaviour validates a destination, whose parent is missing, a file, or
\* a directory with its entries, or constructs a ProjectConfig from a name
\* of at most MaxName characters, with or without a slug and a package name
ValidatorInit ==
    /\ \/ /\ api = "validator"
          /\ pc = NoPc
          /\ \E w \in BOOLEAN, p \in {NoObj, DirObj, FileObj(<<65>>)},
                o \in {NoObj, FileObj(<<65>>)},
                t \in {"absent", "file", "empty", "full"},
                k \in {"absent", "file", "dir"} :
                /\ k # "dir" => (p = NoObj /\ o = NoObj /\ t = "absent")
                /\ k = "file" => w
                /\ val = [NoVal EXCEPT
                            !.dir = [parent |-> k, writable |-> w, probe |-> p,
                                     other |-> o, dest |-> t],
                            !.before = [parent |-> k, writable |-> w, probe |-> p,
                                        other |-> o, dest |-> t]]
       \/ /\ api = "project"
          /\ val = NoVal
          /\ \E n \in UNION {[1..l -> NameChars] : l \in 0..MaxName},
                s \in {<<>>, <<"9", "i">>},
                k \in {<<>>, <<"i", "f">>, <<"p", "-", "i">>, <<"p", "i">>} :
                pc = [NoPc EXCEPT !.name = n, !.slug = s, !.package = k]
    /\ rendered = [p \in Paths |-> NoObj]
    /\ fs = [r \in {"dest", "tmp"} |-> AbsentTree]
    /\ snapshot = <<>>
    /\ ret = NoRet
    /\ gplan = NoPlan
    /\ eret = NoERet
    /\ cli = NoCli
    /\ cfg = NoCfg
    /\ reg = NoReg

\* a call of ProjectValidator.validate_destination(destination, force=force)
ValidateDestinationCall ==
    /\ api = "validator"
    /\ \E force \in BOOLEAN :
        LET r == ValidateDestinationIn(val.dir, force)
        IN  val' = [val EXCEPT !.dir = r.dir, !.before = val.dir, !.op = "validate",
                               !.force = force, !.exc = r.exc]
    /\ UNCHANGED <<rendered, fs, snapshot, ret, gplan, eret, api, cli, cfg, reg, pc>>

\* a construction of ProjectConfig from the arguments of the behaviour
ProjectConfigCall ==
    /\ api = "project"
    /\ pc.op = "none"
    /\ LET r == NewProjectConfig(pc.name, pc.slug, pc.package)
       IN  pc' = [pc EXCEPT !.op = "new", !.exc = r.exc,
                            !.project_slug = r.project_slug,
                            !.package_name = r.package_name]
    /\ UNCHANGED <<rendered, fs, snapshot, ret, gplan, eret, api, cli, cfg, reg, val>>

ValidatorNext ==
    \/ ValidateDestinationCall
    \/ ProjectConfigCall

ValidatorSpec == ValidatorInit /\ [][ValidatorNext]_vars

----------------------------------------------------------------------------
(* Vocabulary of the properties *)

Dest == fs["dest"]

\* a plan has been returned by plan_against_destination with this force flag
PlanReturned(force) == ret.op = "plan" /\ ret.exc = "none" /\ ret.force = force

\* the bytes the render produced at p, and the bytes of the destination file
RenderedBytes(p) == rendered[p].bytes
DestBytes(p) == Dest.files[p].bytes

\* a regular file occupies destination/p
DestFileAt(p) == Dest.kind = "dir" /\ Dest.files[p].k = "file"

\* anything (a file or a directory) occupies destination/p
DestObjectAt(p) == Dest.kind = "dir" /\ Dest.files[p].k \in {"file", "dir"}

\* the text a byte sequence reads as, when it decodes
TextOf(b) == UniversalNewlines(Utf8Decode(b).text)

\* what the planner's comparison can tell apart: a destination file that
\* decodes differs when the rendered file does not decode or reads as another
\* text; one that does not decode differs when its byte length is another
ComparesDifferent(p) ==
    IF Utf8Decode(DestBytes(p)).ok
      THEN ~Utf8Decode(RenderedBytes(p)).ok
           \/ TextOf(RenderedBytes(p)) # TextOf(DestBytes(p))
      ELSE Len(DestBytes(p)) # Len(RenderedBytes(p))

\* the entry of a returned plan for path p
EntryOf(p) == ret.plan[CHOOSE i \in 1..Len(ret.plan) : ret.plan[i].path = p]

PlanPaths == { ret.plan[i].path : i \in 1..Len(ret.plan) }

----------------------------------------------------------------------------
(* C1 *)

\* C1 as stated: with force=False every snapshot path whose destination file
\* differs in content from the rendered file is skip-exists, with the note
\* "use --force to overwrite" and in the conflict set, and every path whose
\* destination file is identical is skip-identical, for text and binary alike.
C1_AsStated ==
    PlanReturned(FALSE) =>
      \A p \in PlanPaths :
        DestFileAt(p) =>
          IF DestBytes(p) # RenderedBytes(p)
            THEN /\ EntryOf(p).status = "skip-exists"
                 /\ EntryOf(p).note = "use --force to overwrite"
                 /\ p \in Conflicts(ret.plan)
            ELSE EntryOf(p).status = "skip-identical"

\* C1 amended: with force=False, in every plan returned, a snapshot path whose
\* destination file exists is skip-exists (note "use --force to overwrite", in
\* the conflict set) exactly when the planner's comparison tells the two apart
\* (decoded text against decoded text, byte length when the destination file
\* does not decode), and skip-identical with an empty note otherwise, hence
\* whenever the bytes are identical.
C1_SkipExistsWhenComparedDifferent ==
    PlanReturned(FALSE) =>
      \A p \in PlanPaths :
        DestFileAt(p) =>
          /\ IF ComparesDifferent(p)
               THEN /\ EntryOf(p).status = "skip-exists"
                    /\ EntryOf(p).note = "use --force to overwrite"
                    /\ p \in Conflicts(ret.plan)
               ELSE /\ EntryOf(p).status = "skip-identical"
                    /\ EntryOf(p).note = ""
                    /\ p \notin Conflicts(ret.plan)
          /\ (DestBytes(p) = RenderedBytes(p) => EntryOf(p).status = "skip-identical")

\* a plan without force holding a skip-exists path and a skip-identical path
\* whose destination bytes are not the rendered bytes
C1_Witness ==
    /\ PlanReturned(FALSE)
    /\ \E p, q \in PlanPaths :
        /\ DestFileAt(p) /\ EntryOf(p).status = "skip-exists"
        /\ DestFileAt(q) /\ EntryOf(q).status = "skip-identical"
        /\ DestBytes(q) # RenderedBytes(q)

----------------------------------------------------------------------------
(* C2 *)

\* every snapshot path has a destination file with the rendered bytes
AllIdentical(paths) ==
    \A p \in paths : DestFileAt(p) /\ DestBytes(p) = RenderedBytes(p)

\* C2: with force=False, when every snapshot path has a destination file whose
\* bytes are those of the rendered file, the call returns one entry per path,
\* each skip-identical with an empty note, and no path is a conflict.
C2_AllIdenticalAllSkipped ==
    (ret.op = "plan" /\ ~ret.force /\ AllIdentical(Keys(snapshot))) =>
      /\ ret.exc = "none"
      /\ PlanPaths = Keys(snapshot)
      /\ \A i \in 1..Len(ret.plan) :
            ret.plan[i].status = "skip-identical" /\ ret.plan[i].note = ""
      /\ Conflicts(ret.plan) = {}

\* such a plan over a text file and a binary file
C2_Witness ==
    /\ PlanReturned(FALSE)
    /\ AllIdentical(Keys(snapshot))
    /\ \E p, q \in PlanPaths :
        Utf8Decode(RenderedBytes(p)).ok /\ ~Utf8Decode(RenderedBytes(q)).ok

----------------------------------------------------------------------------
(* C3 *)

\* create_plan has returned a plan
CreatePlanReturned == eret.op = "create_plan" /\ eret.exc = "none"

ConflictSet == { gplan.conflicts[i] : i \in 1..Len(gplan.conflicts) }

----------------------------------------------------------------------------
(* C4 *)

\* C4 as stated: when a plain file occupies the destination root, planning
\* fails with an I/O error and returns no plan.
C4_AsStated ==
    Dest.kind = "file" =>
      /\ (ret.op = "plan" /\ snapshot # <<>>) =>
            ret.exc \in {"NotADirectoryError", "IsADirectoryError"}
      /\ ~(CreatePlanReturned /\ gplan.files # <<>>)

----------------------------------------------------------------------------
(* C5 *)

\* C5 as stated: with force=True no entry is skip-identical or skip-exists,
\* every path whose destination file exists is overwrite, with the note
\* "identical content" exactly when the contents are identical and an empty
\* note otherwise, no conflict is reported, and analyze_conflicts(force=True)
\* returns the empty list.
C5_AsStated ==
    /\ PlanReturned(TRUE) =>
         /\ \A p \in PlanPaths :
              /\ EntryOf(p).status \in {"create", "overwrite"}
              /\ DestFileAt(p) =>
                   /\ EntryOf(p).status = "overwrite"
                   /\ EntryOf(p).note =
                        IF DestBytes(p) = RenderedBytes(p) THEN "identical content" ELSE ""
         /\ Conflicts(ret.plan) = {}
    /\ (eret.op = "analyze" /\ eret.force) => eret.value = <<>>

\* C5 amended: as stated, but the note is "identical content" exactly when the
\* planner's comparison does not tell the destination file from the rendered
\* file (decoded text against decoded text, byte length when the destination
\* file does not decode), which includes every file with identical bytes.
C5_ForceOverwritesEveryExistingFile ==
    /\ PlanReturned(TRUE) =>
         /\ \A p \in PlanPaths :
              /\ EntryOf(p).status \in {"create", "overwrite"}
              /\ DestFileAt(p) =>
                   /\ EntryOf(p).status = "overwrite"
                   /\ EntryOf(p).note =
                        IF ComparesDifferent(p) THEN "" ELSE "identical content"
                   /\ (DestBytes(p) = RenderedBytes(p) =>
                         EntryOf(p).note = "identical content")
         /\ Conflicts(ret.plan) = {}
    /\ (eret.op = "analyze" /\ eret.force) => eret.value = <<>>

\* a forced plan overwriting an identical file, and a differing file of the
\* same length with the note "identical content"
C5_Witness ==
    /\ PlanReturned(TRUE)
    /\ \E p, q \in PlanPaths :
        /\ DestFileAt(p) /\ DestBytes(p) = RenderedBytes(p)
        /\ EntryOf(p).note = "identical content"
        /\ DestFileAt(q) /\ DestBytes(q) # RenderedBytes(q)
        /\ EntryOf(q).status = "overwrite" /\ EntryOf(q).note = "identical content"

----------------------------------------------------------------------------
(* C6 *)

\* C6: when nothing exists at destination/p for any snapshot path p (the
\* destination may not exist at all), plan_against_destination returns, with
\* either force value, one entry per snapshot path, each with status create,
\* and no conflict; and create_plan reports zero conflicts.
C6_FreshDestinationAllCreate ==
    /\ (ret.op = "plan" /\ \A p \in Keys(snapshot) : ~DestObjectAt(p)) =>
         /\ ret.exc = "none"
         /\ PlanPaths = Keys(snapshot)
         /\ \A i \in 1..Len(ret.plan) : ret.plan[i].status = "create"
         /\ Conflicts(ret.plan) = {}
    /\ (CreatePlanReturned /\ \A p \in Keys(gplan.files) : ~DestObjectAt(p)) =>
         /\ gplan.conflicts = <<>>
         /\ SummaryConflicts(gplan) = 0

\* a forced plan of two paths against a destination directory that holds
\* neither of them
C6_Witness ==
    /\ PlanReturned(TRUE)
    /\ Dest.kind = "dir"
    /\ Len(ret.plan) = 2
    /\ \A p \in Keys(snapshot) : ~DestObjectAt(p)

----------------------------------------------------------------------------
(* C7 *)

Statuses == {"create", "skip-identical", "skip-exists", "overwrite"}

\* C7 as stated: whatever occupies destination/p (nothing, a regular file or
\* a directory), plan_against_destination returns exactly one entry per
\* snapshot path, each with one of the four statuses.
C7_AsStated ==
    ret.op = "plan" =>
      /\ ret.exc = "none"
      /\ Len(ret.plan) = Len(snapshot)
      /\ PlanPaths = Keys(snapshot)
      /\ \A i \in 1..Len(ret.plan) : ret.plan[i].status \in Statuses

----------------------------------------------------------------------------
(* C8 *)

----------------------------------------------------------------------------
(* C9 *)

\* the snapshots holding the mapping of snap in another insertion order
Reordered(snap) ==
    { [i \in 1..Len(snap) |-> snap[l[i]]] :
        l \in { m \in [1..Len(snap) -> 1..Len(snap)] :
                  \A i, j \in 1..Len(snap) : m[i] = m[j] => i = j } }

\* C9: whatever the insertion order of the snapshot, the call returns what it
\* returned for the order it was given, and a returned list is strictly
\* increasing by path.
C9_OrderOfSnapshotIsIrrelevant ==
    ret.op = "plan" =>
      /\ \A other \in Reordered(snapshot) :
            PlanAgainstDestination(other, Dest, ret.force)
              = [exc |-> ret.exc, value |-> ret.plan]
      /\ \A i \in 1..Len(ret.plan) - 1 : PathLT(ret.plan[i].path, ret.plan[i + 1].path)

\* a plan of two entries made from a snapshot that lists the greater path first
C9_Witness ==
    /\ ret.op = "plan" /\ ret.exc = "none"
    /\ Len(ret.plan) = 2 /\ Len(snapshot) = 2
    /\ PathLT(snapshot[2][1], snapshot[1][1])

----------------------------------------------------------------------------
(* C10 *)

\* a step in which one of snapshot_render_to_memory, plan_against_destination,
\* create_plan or analyze_conflicts returns or raises: it leaves the outcome of
\* a call behind, where a change of the destination by the user clears both
CallStep == ret'.op # "none" \/ eret'.op # "none"

\* C10: a step of snapshot_render_to_memory, plan_against_destination,
\* create_plan or analyze_conflicts, returning or raising, leaves the
\* destination as it was: its existence and every object under it.
C10_PlanningLeavesDestinationAlone ==
    [][CallStep => fs'["dest"] = fs["dest"]]_vars

\* a render has raised, or a plan has been made, over a destination directory
\* that holds a file
C10_Witness ==
    /\ FilesOf(Dest) # {}
    /\ \/ ret.op = "snapshot" /\ ret.exc = "RenderError"
       \/ CreatePlanReturned /\ gplan.files # <<>>

----------------------------------------------------------------------------
(* C11 *)

\* a call of snapshot_render_to_memory or create_plan has ended, by return
\* or by an exception
SnapshotterEnded == ret.op = "snapshot" \/ eret.op = "create_plan"

\* C11: once a call of snapshot_render_to_memory or of create_plan (which
\* renders through _render_to_memory) has ended, whether it returned, the
\* render raised or a read of a rendered file raised, the sandbox directory
\* does not exist.
C11_SandboxGoneOnEveryExit ==
    SnapshotterEnded => fs["tmp"].kind = "absent"

\* the read of a rendered file has raised out of snapshot_render_to_memory
C11_Witness ==
    /\ ret.op = "snapshot" /\ ret.exc = "OSError"
    /\ RenderedFiles # {}

----------------------------------------------------------------------------
(* C12 *)

\* C12 as stated: when the render raises inside create_plan, the exception
\* that reaches the caller is the renderer's own, and no plan is returned.
C12_AsStated ==
    (eret.op = "create_plan" /\ eret.renderFailed) =>
      /\ eret.exc = "RenderError"
      /\ ~eret.returned

\* C12 amended: when the render raises inside create_plan, the caller gets a
\* CopierExecutionError whose original_error is the renderer's exception,
\* and no plan is returned.
C12_RenderErrorReachesCallerWrapped ==
    (eret.op = "create_plan" /\ eret.renderFailed) =>
      /\ eret.exc = "CopierExecutionError"
      /\ eret.cause = "RenderError"
      /\ ~eret.returned
      /\ eret.value = <<>>

\* the render has raised inside create_plan after materialising a file in the
\* sandbox, over a destination that already holds a file
C12_Witness ==
    /\ eret.op = "create_plan" /\ eret.renderFailed
    /\ RenderedFiles # {}
    /\ FilesOf(Dest) # {}

----------------------------------------------------------------------------
(* C13 *)

\* the record of path p in the snapshot of snapshot_render_to_memory, and in
\* the files of the plan of create_plan
RecordOf(p) == snapshot[CHOOSE i \in 1..Len(snapshot) : snapshot[i][1] = p][2]
FileSnapshotOf(p) ==
    gplan.files[CHOOSE i \in 1..Len(gplan.files) : gplan.files[i][1] = p][2]

\* C13 as stated: for every file of a snapshot, text or binary, the recorded
\* size is the byte length of the rendered file.
C13_AsStated ==
    /\ \A p \in Keys(snapshot) : RecordOf(p).size = Len(RenderedBytes(p))
    /\ \A p \in Keys(gplan.files) : FileSnapshotOf(p).size = Len(RenderedBytes(p))

----------------------------------------------------------------------------
(* C14 *)

\* C14 as stated: a rendered file is recorded as text exactly when its bytes
\* decode as UTF-8, its content then being the decoded text (an empty file is
\* text with empty content), and as binary otherwise.
C14_AsStated ==
    /\ \A p \in Keys(snapshot) :
          IF Utf8Decode(RenderedBytes(p)).ok
            THEN /\ RecordOf(p).type = "text"
                 /\ RecordOf(p).text = Utf8Decode(RenderedBytes(p)).text
            ELSE RecordOf(p).type = "binary"
    /\ \A p \in Keys(gplan.files) :
          IF Utf8Decode(RenderedBytes(p)).ok
            THEN /\ ~FileSnapshotOf(p).is_binary
                 /\ FileSnapshotOf(p).content = Utf8Decode(RenderedBytes(p)).text
            ELSE FileSnapshotOf(p).is_binary

----------------------------------------------------------------------------
(* C15 *)

RECURSIVE Segments(_)
\* the segments of a path given by its code points, split at "/"
Segments(cs) ==
    IF \A i \in 1..Len(cs) : cs[i] # 47 THEN <<cs>>
    ELSE LET k == CHOOSE i \in 1..Len(cs) :
                    cs[i] = 47 /\ \A j \in 1..(i - 1) : cs[j] # 47
         IN  <<SubSeq(cs, 1, k - 1)>> \o Segments(SubSeq(cs, k + 1, Len(cs)))

\* a relative path without a ".." segment
RelativeAndInside(p) ==
    /\ PathChars(p) # <<>>
    /\ Head(PathChars(p)) # 47
    /\ \A i \in 1..Len(Segments(PathChars(p))) : Segments(PathChars(p))[i] # <<46, 46>>

\* C15: the keys of a snapshot returned by snapshot_render_to_memory, and of
\* the files of a plan returned by create_plan, are exactly the relative
\* paths of the regular files the render produced, dotfiles and nested files
\* included, each key once; no key is absolute or has a ".." segment.
C15_KeysAreTheRenderedFiles ==
    /\ (ret.op = "snapshot" /\ ret.exc = "none") =>
          /\ Keys(snapshot) = RenderedFiles
          /\ Len(snapshot) = Cardinality(RenderedFiles)
          /\ \A p \in Keys(snapshot) : RelativeAndInside(p)
    /\ CreatePlanReturned =>
          /\ Keys(gplan.files) = RenderedFiles
          /\ Len(gplan.files) = Cardinality(RenderedFiles)
          /\ \A p \in Keys(gplan.files) : RelativeAndInside(p)

\* a snapshot of a render that produced a dotfile and a nested file
C15_Witness ==
    /\ ret.op = "snapshot" /\ ret.exc = "none"
    /\ Keys(snapshot) = {".e", "d/f"}

----------------------------------------------------------------------------
(* Vocabulary of the properties of the command *)

\* a run of the generate command has got as far as the engine
CliRan == cli.op = "generate" /\ cli.early = "ok"

\* the destination as the run found it
Before == cli.before

\* the destination as it was but for the exported document at ExportPath
BeforeWithExport ==
    [kind |-> "dir", files |-> [Before.files EXCEPT ![ExportPath] = ExportFile]]

\* the rendered file is in the destination
Written(p) == Dest.kind = "dir" /\ Dest.files[p] = rendered[p]

\* the object at destination/p is the one the run found there
Untouched(p) ==
    (IF Dest.kind = "dir" THEN Dest.files[p] ELSE NoObj)
      = (IF Before.kind = "dir" THEN Before.files[p] ELSE NoObj)

\* something of the render occupied the destination when the run began
HadConflict == \E p \in RenderedFiles : Exists(Before, p)

----------------------------------------------------------------------------
(* C16 *)

----------------------------------------------------------------------------
(* C17 *)

\* C17: a run without --demo and without --force whose plan has a conflict
\* ends with exit code 1 without calling generate_project, the destination
\* as it was.
C17_ConflictStopsTheRun ==
    (CliRan /\ ~cli.demo /\ ~cli.force /\ cli.planMade /\ cli.conflicts # <<>>) =>
      /\ cli.exit = 1
      /\ ~cli.called /\ ~cli.wrote
      /\ Dest = Before

\* such a run, one rendered file in conflict and the other not
C17_Witness ==
    /\ CliRan /\ ~cli.demo /\ ~cli.force /\ cli.planMade
    /\ Len(cli.conflicts) = 1 /\ Len(cli.files) = 2
    /\ HadConflict
    /\ cli.exit = 1

----------------------------------------------------------------------------
(* C18 *)

CliConflicts == { cli.conflicts[i] : i \in 1..Len(cli.conflicts) }

----------------------------------------------------------------------------
(* C19 *)

\* a demo run has exported its plan
Exported == CliRan /\ cli.demo /\ cli.exported # <<>>
Document == cli.exported[1]

\* C19 as stated: the exported document is an object with the fields
\* destination, template, force, plan and files.
C19_AsStated ==
    Exported => DOMAIN Document = {"destination", "template", "force", "plan", "files"}

\* C19 amended: the exported document is an object with the fields summary
\* (total_files, conflicts, destination, template), files (the snapshot: for
\* each path its content, size and is_binary) and conflicts (the conflicting
\* paths); it has no field force and no field plan.
C19_ExportHoldsSummaryFilesConflicts ==
    Exported =>
      /\ DOMAIN Document = {"summary", "files", "conflicts"}
      /\ DOMAIN Document.summary = {"total_files", "conflicts", "destination", "template"}
      /\ Document.summary.total_files = Cardinality(RenderedFiles)
      /\ Document.summary.conflicts = Len(Document.conflicts)
      /\ Keys(Document.files) = RenderedFiles
      /\ \A i \in 1..Len(Document.files) :
            DOMAIN Document.files[i][2] = {"content", "size", "is_binary"}
      /\ Document.conflicts = cli.conflicts
      /\ { Document.conflicts[i] : i \in 1..Len(Document.conflicts) }
            = { p \in RenderedFiles : Exists(Before, p) }

\* a plan of two files, one of them a conflict, has been exported
C19_Witness ==
    /\ Exported
    /\ cli.exit = 0
    /\ Len(Document.files) = 2
    /\ Len(Document.conflicts) = 1

----------------------------------------------------------------------------
(* C20 *)

\* a call of generate_project has ended
GenerateProjectEnded == cli.op = "generate_project"

ValidationErrors == {"InvalidProjectNameError", "ProjectExistsError"}

----------------------------------------------------------------------------
(* Vocabulary of the claims about the user configuration *)

\* the last configuration call was op
ConfigRan(op) == cfg.out.op = op

\* the place of a location in the documented search order
Rank(s) ==
    CASE s = "env" -> 1 [] s = "cwd" -> 2 [] s = "xdg" -> 3 [] s = "home" -> 4

\* the location of highest precedence among S
Highest(S) == CHOOSE s \in S : \A t \in S : Rank(s) <= Rank(t)

\* the locations at which a file existed when the last call began
ExistingBefore == {s \in Slots : cfg.before[s].there}

\* the text of the file at location s when the last call began
DocumentAt(s) == SafeLoad(cfg.before[s].text)

\* the file at s held no YAML node: yaml.safe_load gave None
EmptyAt(s) == DocumentAt(s).exc = "none" /\ DocumentAt(s).t = "none"

\* the existing files that are not empty
SupplyingBefore == {s \in ExistingBefore : ~EmptyAt(s)}

\* the file at s is valid YAML and validates as a UserConfig
ValidAt(s) == DocumentAt(s).exc = "none" /\ ModelValidate(DocumentAt(s)).exc = "none"

\* the settings of the file at s
SettingsAt(s) == ModelValidate(DocumentAt(s)).config

\* the call returned configuration c
Returned(c) == cfg.out.exc = "none" /\ cfg.out.config = c

----------------------------------------------------------------------------
(* C21 *)

----------------------------------------------------------------------------
(* C22 *)

\* C22 as the specification states it: after a load that succeeded,
\* get_effective_config_path is None exactly when load fell back to the
\* defaults because no file supplied settings, and otherwise it is the file
\* whose contents load returned.
C22_AsStated ==
    ConfigRan("show") /\ cfg.out.exc = "none" =>
        /\ cfg.out.path = "none" <=> cfg.out.source = "none"
        /\ cfg.out.source # "none" => cfg.out.path = cfg.out.source

----------------------------------------------------------------------------
(* C23 *)

\* C23 as the specification states it: save() and initialize_config()
\* without a path write the file of the user config directory, and no other
\* file, whether or not DEVMAN_CONFIG is set.
C23_AsStated ==
    (ConfigRan("save") \/ ConfigRan("init")) /\ cfg.out.exc = "none" =>
        /\ cfg.out.path = "xdg"
        /\ \A s \in Slots \ {"xdg"} : cfg.files[s] = cfg.before[s]

----------------------------------------------------------------------------
(* C24 *)

\* C24 as the specification states it: the load that follows a successful
\* `config --set key=value` returns a configuration in which key has the
\* converted value.
C24_AsStated ==
    ConfigRan("load") /\ cfg.out.afterSet =>
        /\ cfg.out.exc = "none"
        /\ cfg.out.config[cfg.out.key] = cfg.out.conv

----------------------------------------------------------------------------
(* C25 *)

\* a run without --demo and without --force found the destination an existing
\* directory that is not empty
NormalRunOnNonEmpty ==
    /\ CliRan /\ ~cli.demo /\ ~cli.force
    /\ Before.kind = "dir" /\ NonEmpty(Before)

\* the run stopped at the conflict check with exit code 1
StoppedAtConflictCheck ==
    cli.planMade /\ cli.conflicts # <<>> /\ ~cli.called /\ cli.exit = 1

\* C25 as the specification states it: such a run leaves the destination as
\* it was, and stops either at the conflict check with exit code 1 or with
\* ProjectExistsError from the validation of the destination.
C25_AsStated ==
    NormalRunOnNonEmpty =>
      /\ Dest = Before /\ ~cli.wrote
      /\ StoppedAtConflictCheck \/ cli.exc = "ProjectExistsError"

\* C25, amended: such a run leaves the destination as it was; it stops at
\* the conflict check with exit code 1, or with ProjectExistsError from the
\* validation of the destination, or, when the template does not resolve,
\* with TemplateNotFoundError before the destination is validated; the exit
\* code is 1 in each case. A plan without conflicts, or a plan that could
\* not be made, ends in one of the two exceptions.
C25_NonEmptyDestinationIsNeverWritten ==
    NormalRunOnNonEmpty =>
      /\ Dest = Before /\ ~cli.wrote
      /\ cli.exit = 1
      /\ \/ StoppedAtConflictCheck
         \/ cli.called /\ cli.found /\ cli.exc = "ProjectExistsError"
         \/ cli.called /\ ~cli.found /\ cli.exc = "TemplateNotFoundError"
      /\ (cli.planMade /\ cli.conflicts = <<>>) => cli.exc = "ProjectExistsError"
      /\ ~cli.planMade => cli.called

\* such a run whose plan had no conflict, the destination holding a file the
\* template does not render: generate_project was called and refused
C25_Witness ==
    /\ NormalRunOnNonEmpty
    /\ cli.planMade /\ cli.conflicts = <<>> /\ Len(cli.files) = 1
    /\ cli.called
    /\ cli.exc = "ProjectExistsError"

----------------------------------------------------------------------------
(* C26 *)

\* C26 as the specification states it: after a call of analyze_conflicts,
\* plan.conflicts is the list the call returned, get_summary counts that
\* list, and every path of plan.conflicts is a key of plan.files.
C26_AsStated ==
    (eret.op = "analyze" /\ gplan.made) =>
      /\ gplan.conflicts = eret.value
      /\ GetSummary(gplan).conflicts = Len(eret.value)
      /\ \A i \in 1..Len(gplan.conflicts) :
            \E j \in 1..Len(gplan.files) : gplan.files[j][1] = gplan.conflicts[i]

----------------------------------------------------------------------------
(* C27 *)

\* C27 as the specification states it: every template directory that
\* _resolve_template_path returns to generate_project or create_plan, and so
\* is handed to Copier, passes TemplateValidator.validate_template.
C27_AsStated ==
    (reg.out.op = "engine" /\ reg.out.exc = "none") =>
        ValidateTemplate(ShapeAt(reg.out.path, reg.shapes)) = "none"

----------------------------------------------------------------------------
(* C28 *)

\* the template registered under the name the last call was about
Registered == reg.templates[reg.out.name]

\* C28 as the specification states it: resolving a name that add_template
\* registered, on the registry in use or on one freshly loaded, returns the
\* local clone of the registered url and ref; and add_template of a
\* registered name without force raises ConfigurationError and leaves the
\* registry as it was.
C28_AsStated ==
    /\ (/\ reg.out.op \in {"resolve", "fresh"} /\ reg.out.exc = "none"
        /\ reg.out.name \in Names /\ Registered.there) =>
          /\ reg.out.path = PathTo("cache", GenerateCacheKey(Registered.url, Registered.ref))
          /\ reg.cache[reg.out.path.key] =
                [there |-> TRUE, url |-> Registered.url,
                 branch |-> Branch(Registered.ref, reg.head)]
    /\ (reg.out.op = "add" /\ reg.out.wasThere /\ ~reg.out.force) =>
          /\ reg.out.exc = "ConfigurationError"
          /\ reg.templates = reg.before
          /\ reg.disk = RegistrySave(reg.before)

----------------------------------------------------------------------------
(* validate_destination and the parent directory (C29) *)

\* the last call of validate_destination returned without an exception;
\* val.before is the parent directory before the call, val.dir after it
ValidatedDestination == val.op = "validate" /\ val.exc = "none"

\* C29: when validate_destination returns successfully, every file that was
\* in the destination's parent directory before the call is still there with
\* the same content, and the probe has left nothing behind; only a missing
\* parent directory may have been created. The code's probe file is
\* .devman_test_<destination name>: when the parent directory already holds
\* a file of that name, touch() takes it over and unlink() deletes it.
C29_AsStated ==
    ValidatedDestination =>
        /\ \A e \in {"probe", "other"} :
              /\ val.before[e].k = "file" => val.dir[e] = val.before[e]
              /\ val.before[e].k = "none" => val.dir[e].k = "none"
        /\ val.dir.dest = val.before.dest

----------------------------------------------------------------------------
(* ProjectConfig's slug and package name (C30) *)

\* the construction of ProjectConfig succeeded
Constructed == pc.op = "new" /\ pc.exc = "none"

\* C30: every successfully constructed ProjectConfig has a non-empty
\* project_slug and a non-empty package_name that validate_package_name
\* accepts, whether package_name was supplied or derived. The code validates
\* package_name only as an argument: the name derived in model_post_init is
\* never validated, so project name "if" gives package name "if", and a
\* supplied slug "9i" gives package name "9i".
C30_AsStated ==
    Constructed =>
        /\ pc.project_slug # <<>>
        /\ pc.package_name # <<>>
        /\ ValidatePackageName(pc.package_name) = "none"

====
